---- MODULE Spec2Model ----
(***************************************************************************)
(* Verification model of the ScrapeOps MCP server: the permission gate     *)
(* (generateErrorResponse), the retry loop of makeRequest and the three    *)
(* proxy tools maps_web, extract_data and return_links.                    *)
(***************************************************************************)
EXTENDS Integers, Sequences, FiniteSets, TLC

VARIABLES
  env,            \* process.env: the two retry variables, each a character sequence or Unset
  tool,           \* the tool whose execute is running ("none": makeRequest called directly)
  args,           \* the arguments of the tool call
  requestParams,  \* execute's local requestParams
  usedOptions,    \* execute's local usedOptions
  validation,     \* execute's local validation (ValidationResult)
  tpc,            \* position of execute
  envelope,       \* what execute returned (parsed JSON), or the marker of a text body / a throw
  noJsResult,     \* check_js_rendering's local noJsResult
  apiKey,         \* makeRequest's apiKey argument
  params,         \* makeRequest's params argument
  pc,             \* position of makeRequest
  attempt,        \* makeRequest's attempt
  delay,          \* makeRequest's delay
  lastError,      \* makeRequest's lastError
  result,         \* the RequestResult makeRequest resolved with
  fetches,        \* history: the parameters of every transport call, in order
  sleeps,         \* history: the duration of every backoff sleep, in order
  outcomes,       \* history: the outcome of every transport call, in order
  gateIn,         \* the arguments of a function that is applied on its own
  analyzer,       \* fetchWithTimeout's call in progress: position, timer, abort signal, outcome
  parked          \* the locals of the invocation that is suspended while another one runs

vars == <<env, tool, args, requestParams, usedOptions, validation, tpc, envelope, noJsResult,
          apiKey, params, pc, attempt, delay, lastError, result, fetches, sleeps, outcomes, gateIn,
          analyzer, parked>>

toolVars == <<tool, args, requestParams, usedOptions, validation, tpc, envelope, noJsResult>>
reqVars == <<apiKey, params, pc, attempt, delay, lastError, result, fetches, sleeps, outcomes>>

----------------------------------------------------------------------------
(* JavaScript values. An object is a function from its own keys to values; *)
(* a key that is absent reads as undefined.                                *)

Undefined == [t |-> "undefined"]
Bool(b) == [t |-> "boolean", b |-> b]
Str(s) == [t |-> "string", s |-> s]
Num(n) == [t |-> "number", nan |-> FALSE, n |-> n]
NaN == [t |-> "number", nan |-> TRUE, n |-> 0]

EmptyObj == [k \in {} |-> Undefined]

Get(o, k) == IF k \in DOMAIN o THEN o[k] ELSE Undefined

Put(o, k, v) == [x \in (DOMAIN o) \cup {k} |-> IF x = k THEN v ELSE o[x]]

\* ToBoolean
IsTruthy(v) ==
  CASE v.t = "undefined" -> FALSE
    [] v.t = "boolean" -> v.b
    [] v.t = "string" -> v.s # ""
    [] v.t = "number" -> ~v.nan /\ v.n # 0

\* a < b on numbers: false as soon as one side is NaN
JsLess(a, b) == ~a.nan /\ ~b.nan /\ a.n < b.n

JsMinus(a, k) == IF a.nan THEN NaN ELSE Num(a.n - k)

JsTimes(a, k) == IF a.nan THEN NaN ELSE Num(a.n * k)

----------------------------------------------------------------------------
(* The permission gate.                                                    *)

ADVANCED_PARAMS ==
  <<"render_js", "residential", "mobile", "premium", "bypass_level", "optimize_request">>

\* hasAdvancedParams without the test value !== false
hasAdvancedParams_falseCounts(p) ==
  SelectSeq(ADVANCED_PARAMS, LAMBDA param : Get(p, param) # Undefined)

hasAdvancedParams(p) ==
  SelectSeq(ADVANCED_PARAMS,
            LAMBDA param : Get(p, param) # Undefined /\ Get(p, param) # Bool(FALSE))

ErrorTypes ==
  {"auth_failed", "forbidden", "not_found", "rate_limited", "server_error",
   "bad_gateway", "service_unavailable", "network_error", "unknown"}

\* Array.prototype.join(', ')
RECURSIVE Join(_)
Join(s) ==
  IF Len(s) = 0 THEN ""
  ELSE IF Len(s) = 1 THEN s[1]
  ELSE s[1] \o ", " \o Join(Tail(s))

Outcome(message, canRetry, suggested) ==
  [userMessage |-> message, canRetryWithAdvanced |-> canRetry,
   suggestedAdvancedParams |-> suggested]

ServerErrorMessage(retriesAttempted) ==
  "Server error occurred (HTTP 500). Retried " \o ToString(retriesAttempted)
    \o " time(s) but the issue persists."

\* the switch with canRetryWithAdvanced = true in the forbidden case
errorSwitch_forbiddenAlwaysEligible(error, errorType, statusCode, usedAdvancedParams, wasBasicRequest, retriesAttempted) ==
  CASE errorType = Str("auth_failed") ->
         Outcome("Authentication failed. Please verify your SCRAPEOPS_API_KEY is correct and has not expired.",
                 FALSE, EmptyObj)
    [] errorType = Str("forbidden") ->
         Outcome(IF wasBasicRequest
                 THEN "The target website blocked the request (HTTP 403). This often happens with protected sites."
                 ELSE "The request was blocked even with advanced options: "
                        \o Join(usedAdvancedParams) \o ".",
                 TRUE,
                 [residential |-> Bool(TRUE), bypass_level |-> Str("generic_level_2")])
    [] errorType = Str("rate_limited") ->
         Outcome("Rate limited by the target website (HTTP 429). The site is limiting request frequency.",
                 wasBasicRequest, [residential |-> Bool(TRUE)])
    [] errorType = Str("not_found") ->
         Outcome("Page not found (HTTP 404). Please verify the URL is correct and the page exists.",
                 FALSE, EmptyObj)
    [] errorType = Str("server_error") ->
         Outcome(ServerErrorMessage(retriesAttempted), wasBasicRequest,
                 [render_js |-> Bool(TRUE)])
    [] errorType \in {Str("bad_gateway"), Str("service_unavailable")} ->
         Outcome("Service temporarily unavailable (HTTP "
                   \o (IF statusCode = Undefined THEN "undefined" ELSE ToString(statusCode.n))
                   \o "). This is usually a temporary issue.",
                 FALSE, EmptyObj)
    [] errorType = Str("network_error") ->
         Outcome("Network connection error. Please check your internet connection and try again.",
                 FALSE, EmptyObj)
    [] OTHER ->
         Outcome(IF error # "" THEN error ELSE "An unknown error occurred.",
                 wasBasicRequest, EmptyObj)

\* the switch with the break of the not_found case missing: it falls through
\* into the server_error case
errorSwitch_notFoundFallsThrough(error, errorType, statusCode, usedAdvancedParams, wasBasicRequest, retriesAttempted) ==
  CASE errorType = Str("auth_failed") ->
         Outcome("Authentication failed. Please verify your SCRAPEOPS_API_KEY is correct and has not expired.",
                 FALSE, EmptyObj)
    [] errorType = Str("forbidden") ->
         Outcome(IF wasBasicRequest
                 THEN "The target website blocked the request (HTTP 403). This often happens with protected sites."
                 ELSE "The request was blocked even with advanced options: "
                        \o Join(usedAdvancedParams) \o ".",
                 wasBasicRequest,
                 [residential |-> Bool(TRUE), bypass_level |-> Str("generic_level_2")])
    [] errorType = Str("rate_limited") ->
         Outcome("Rate limited by the target website (HTTP 429). The site is limiting request frequency.",
                 wasBasicRequest, [residential |-> Bool(TRUE)])
    [] errorType \in {Str("not_found"), Str("server_error")} ->
         Outcome(ServerErrorMessage(retriesAttempted), wasBasicRequest,
                 [render_js |-> Bool(TRUE)])
    [] errorType \in {Str("bad_gateway"), Str("service_unavailable")} ->
         Outcome("Service temporarily unavailable (HTTP "
                   \o (IF statusCode = Undefined THEN "undefined" ELSE ToString(statusCode.n))
                   \o "). This is usually a temporary issue.",
                 FALSE, EmptyObj)
    [] errorType = Str("network_error") ->
         Outcome("Network connection error. Please check your internet connection and try again.",
                 FALSE, EmptyObj)
    [] OTHER ->
         Outcome(IF error # "" THEN error ELSE "An unknown error occurred.",
                 wasBasicRequest, EmptyObj)

\* the switch of generateErrorResponse: userMessage, canRetryWithAdvanced and
\* suggestedAdvancedParams of each case
errorSwitch(error, errorType, statusCode, usedAdvancedParams, wasBasicRequest, retriesAttempted) ==
  CASE errorType = Str("auth_failed") ->
         Outcome("Authentication failed. Please verify your SCRAPEOPS_API_KEY is correct and has not expired.",
                 FALSE, EmptyObj)
    [] errorType = Str("forbidden") ->
         Outcome(IF wasBasicRequest
                 THEN "The target website blocked the request (HTTP 403). This often happens with protected sites."
                 ELSE "The request was blocked even with advanced options: "
                        \o Join(usedAdvancedParams) \o ".",
                 wasBasicRequest,
                 [residential |-> Bool(TRUE), bypass_level |-> Str("generic_level_2")])
    [] errorType = Str("rate_limited") ->
         Outcome("Rate limited by the target website (HTTP 429). The site is limiting request frequency.",
                 wasBasicRequest, [residential |-> Bool(TRUE)])
    [] errorType = Str("not_found") ->
         Outcome("Page not found (HTTP 404). Please verify the URL is correct and the page exists.",
                 FALSE, EmptyObj)
    [] errorType = Str("server_error") ->
         Outcome(ServerErrorMessage(retriesAttempted), wasBasicRequest,
                 [render_js |-> Bool(TRUE)])
    [] errorType \in {Str("bad_gateway"), Str("service_unavailable")} ->
         Outcome("Service temporarily unavailable (HTTP "
                   \o (IF statusCode = Undefined THEN "undefined" ELSE ToString(statusCode.n))
                   \o "). This is usually a temporary issue.",
                 FALSE, EmptyObj)
    [] errorType = Str("network_error") ->
         Outcome("Network connection error. Please check your internet connection and try again.",
                 FALSE, EmptyObj)
    [] OTHER ->
         Outcome(IF error # "" THEN error ELSE "An unknown error occurred.",
                 wasBasicRequest, EmptyObj)

BasicMarker == "none (basic request with default settings)"

permissionRequest(suggested) ==
  [message |-> "REQUEST FOR PERMISSION: The basic request failed. I can retry with advanced scraping options that may help, but they will consume more API credits.",
   question |-> "Would you like me to retry with the following advanced options?",
   suggested_options |-> suggested,
   estimated_additional_cost |-> "Approximately 10-25 additional credits per request",
   action_required |-> "Please confirm by saying \"yes, retry with advanced options\" or specify which options you want to use."]

diagnosticBlock(usedAdvancedParams) ==
  [message |-> "Advanced options were already used but the request still failed.",
   tried_options |-> usedAdvancedParams,
   possible_causes |->
     <<"The target website has very strong anti-bot protection",
       "The URL may be incorrect or the page may not exist",
       "The website may be experiencing issues">>,
   recommendations |->
     <<"Verify the URL is correct and accessible in a browser",
       "Try a different approach or target URL",
       "Contact ScrapeOps support if the issue persists">>]

\* the final if / else if with the else dropped and the diagnostic attached to
\* every failure
attachBlocks_diagnosticAlways(response, canRetry, suggested, wasBasicRequest, usedAdvancedParams) ==
  response
    @@ (IF canRetry /\ Cardinality(DOMAIN suggested) > 0
        THEN [permission_request |-> permissionRequest(suggested)] ELSE EmptyObj)
    @@ [diagnostic |-> diagnosticBlock(usedAdvancedParams)]

\* the final if / else if with the permission_request branch dropped
attachBlocks_neverPermission(response, canRetry, suggested, wasBasicRequest, usedAdvancedParams) ==
  IF ~wasBasicRequest
  THEN response @@ [diagnostic |-> diagnosticBlock(usedAdvancedParams)]
  ELSE response

\* the final if / else if of generateErrorResponse
attachBlocks(response, canRetry, suggested, wasBasicRequest, usedAdvancedParams) ==
  IF canRetry /\ Cardinality(DOMAIN suggested) > 0
  THEN response @@ [permission_request |-> permissionRequest(suggested)]
  ELSE IF ~wasBasicRequest
  THEN response @@ [diagnostic |-> diagnosticBlock(usedAdvancedParams)]
  ELSE response

\* JSON.parse of the string generateErrorResponse returns; JSON.stringify drops
\* a status_code that is undefined
generateErrorResponse(url, error, errorType, statusCode, usedOptionsArg, retriesAttempted) ==
  LET usedAdvancedParams == hasAdvancedParams(usedOptionsArg)
      wasBasicRequest == Len(usedAdvancedParams) = 0
      sw == errorSwitch(error, errorType, statusCode, usedAdvancedParams, wasBasicRequest,
                        retriesAttempted)
      response ==
        [success |-> FALSE,
         url |-> url,
         error |-> sw.userMessage,
         error_type |-> IF errorType = Undefined THEN "unknown" ELSE errorType.s,
         retries_attempted |-> retriesAttempted,
         options_used |-> IF wasBasicRequest THEN [marker |-> BasicMarker] ELSE usedOptionsArg]
        @@ (IF statusCode = Undefined THEN EmptyObj ELSE [status_code |-> statusCode.n])
  IN attachBlocks(response, sw.canRetryWithAdvanced, sw.suggestedAdvancedParams,
                  wasBasicRequest, usedAdvancedParams)

----------------------------------------------------------------------------
(* Configuration: RETRY_CONFIG is read from the environment with parseInt. *)

MaxAttemptsEnv == 3

DigitChars == <<"0", "1", "2", "3", "4", "5", "6", "7", "8", "9">>

IsDigit(c) == \E i \in 1..10 : DigitChars[i] = c

DigitValue(c) == (CHOOSE i \in 1..10 : DigitChars[i] = c) - 1

\* the decimal numeral of a natural number, as a sequence of characters
RECURSIVE Numeral(_)
Numeral(n) ==
  IF n < 10 THEN <<DigitChars[n + 1]>>
  ELSE Append(Numeral(n \div 10), DigitChars[(n % 10) + 1])

RECURSIVE SkipSpaces(_)
SkipSpaces(s) == IF Len(s) > 0 /\ s[1] = " " THEN SkipSpaces(Tail(s)) ELSE s

\* the value of the longest prefix of digits of s, acc being the value read so far
RECURSIVE ReadDigits(_, _)
ReadDigits(s, acc) ==
  IF Len(s) > 0 /\ IsDigit(s[1])
  THEN ReadDigits(Tail(s), 10 * acc + DigitValue(s[1]))
  ELSE acc

\* parseInt(s, 10): leading blanks, an optional sign, then digits up to the first
\* character that is no digit; NaN when there is no digit
parseInt(s) ==
  LET t == SkipSpaces(s)
      signed == Len(t) > 0 /\ t[1] \in {"+", "-"}
      u == IF signed THEN Tail(t) ELSE t
  IN IF Len(u) = 0 \/ ~IsDigit(u[1]) THEN NaN
     ELSE IF signed /\ t[1] = "-" THEN Num(0 - ReadDigits(u, 0))
     ELSE Num(ReadDigits(u, 0))

\* process.env.NAME || fallback
EnvOr(name, fallback) ==
  IF name \in DOMAIN env /\ env[name] # <<>> THEN env[name] ELSE fallback

RETRY_CONFIG ==
  [maxAttempts |-> parseInt(EnvOr("SCRAPEOPS_RETRY_MAX_ATTEMPTS", <<"1">>)),
   initialDelay |-> parseInt(EnvOr("SCRAPEOPS_RETRY_INITIAL_DELAY", <<"1", "0", "0", "0">>))]

\* the values SCRAPEOPS_RETRY_MAX_ATTEMPTS takes: a numeral, the empty string,
\* a negative numeral, text that is no number
MaxAttemptsTexts ==
  {Numeral(n) : n \in 0..MaxAttemptsEnv} \cup {<<>>, <<"-", "1">>, <<"a", "b", "c">>}

InitialDelayTexts == {<<"2", "5", "0">>}

Environments ==
  {m @@ d :
     m \in {EmptyObj} \cup {[SCRAPEOPS_RETRY_MAX_ATTEMPTS |-> x] : x \in MaxAttemptsTexts},
     d \in {EmptyObj} \cup {[SCRAPEOPS_RETRY_INITIAL_DELAY |-> x] : x \in InitialDelayTexts}}

----------------------------------------------------------------------------
(* Page texts and the anti-bot signatures. A page text is the fragments of *)
(* Vocabulary that occur in it, joined by line breaks; every other string *)
(* (an error message, a JSON dump) holds no fragment.                      *)

MaxFragments == 3

Vocabulary ==
  <<"__cf_chl_", "cdn-cgi/challenge-platform", "cf-turnstile", "cf-beacon",
    "cloudflareinsights.com", "captcha.awswaf", "g-recaptcha", "<p>hello</p>">>

RECURSIVE Lines(_)
Lines(q) == IF q = <<>> THEN "" ELSE q[1] \o "\n" \o Lines(Tail(q))

FragmentSets ==
  {fs \in SUBSET {Vocabulary[i] : i \in DOMAIN Vocabulary} : Cardinality(fs) <= MaxFragments}

\* the page text in which exactly the fragments fs occur
PageOf(fs) == Lines(SelectSeq(Vocabulary, LAMBDA f : f \in fs))

Pages == {PageOf(fs) : fs \in FragmentSets}

\* the fragments of Vocabulary that occur in text
FragmentsIn(text) == UNION {fs \in FragmentSets : PageOf(fs) = text}

\* the sources of the patterns of ANTI_BOT_SIGNATURES that match a fragment
PatternsMatching(fragment) ==
  CASE fragment = "__cf_chl_" -> {"__cf_chl_"}
    [] fragment = "cdn-cgi/challenge-platform" -> {"cdn-cgi\\/challenge-platform", "cdn-cgi\\/"}
    [] fragment = "cf-turnstile" -> {"cf-turnstile"}
    [] fragment = "cf-beacon" -> {"cf-beacon"}
    [] fragment = "cloudflareinsights.com" -> {"cloudflareinsights\\.com"}
    [] fragment = "captcha.awswaf" -> {"captcha\\.awswaf", "awswaf"}
    [] fragment = "g-recaptcha" -> {"g-recaptcha"}
    [] OTHER -> {}

\* pattern.test(html), for the pattern with source pattern
test(pattern, html) == \E f \in FragmentsIn(html) : pattern \in PatternsMatching(f)

ANTI_BOT_SIGNATURES ==
  << [name |-> "Cloudflare",
      challengePatterns |->
        <<"challenges\\.cloudflare\\.com", "cdn-cgi\\/challenge-platform", "__cf_chl_",
          "cf-browser-verification", "Attention Required! \\| Cloudflare",
          "Just a moment\\.\\.\\.<\\/title>">>,
      htmlPatterns |->
        <<"cdn-cgi\\/", "cf-beacon", "cloudflareinsights\\.com", "cf-turnstile">>],
     [name |-> "DataDome",
      challengePatterns |-> <<"captcha\\.datadome", "interstitial\\.datadome">>,
      htmlPatterns |-> <<"datadome\\.co", "dd\\.js", "tags\\.tiqcdn\\.com.*datadome">>],
     [name |-> "PerimeterX (HUMAN)",
      challengePatterns |-> <<"px-captcha", "captcha\\.px-cdn\\.net">>,
      htmlPatterns |-> <<"b\\.px-cloud\\.net", "client\\.perimeterx\\.net", "_pxhd">>],
     [name |-> "Incapsula/Imperva",
      challengePatterns |-> <<"_Incapsula_Resource", "visid_incap_", "incap_ses_">>,
      htmlPatterns |-> <<"incapsula", "imperva">>],
     [name |-> "Akamai Bot Manager",
      challengePatterns |-> <<"ak_bmsc">>,
      htmlPatterns |-> <<"akamaihd\\.net", "akam\\/">>],
     [name |-> "AWS WAF",
      challengePatterns |-> <<"aws-waf-token", "captcha\\.awswaf">>,
      htmlPatterns |-> <<"awswaf">>],
     [name |-> "Sucuri",
      challengePatterns |-> <<"sucuri-cloudproxy">>,
      htmlPatterns |-> <<"sucuri\\.net">>],
     [name |-> "reCAPTCHA",
      challengePatterns |-> <<>>,
      htmlPatterns |-> <<"google\\.com\\/recaptcha", "g-recaptcha", "grecaptcha">>],
     [name |-> "hCaptcha",
      challengePatterns |-> <<>>,
      htmlPatterns |-> <<"hcaptcha\\.com", "h-captcha">>],
     [name |-> "Kasada",
      challengePatterns |-> <<>>,
      htmlPatterns |-> <<"kasada\\.io">>],
     [name |-> "Shape Security (F5)",
      challengePatterns |-> <<>>,
      htmlPatterns |-> <<"shapesecurity\\.com">>] >>

\* the confidence rule with the blocked request alone giving high
confidenceOf_blockedIsHigh(isBlocking, evidenceCount, requestBlocked) ==
  IF isBlocking \/ requestBlocked THEN "high"
  ELSE IF evidenceCount >= 2 THEN "medium"
  ELSE "low"

confidenceOf(isBlocking, evidenceCount, requestBlocked) ==
  IF isBlocking \/ (evidenceCount >= 3 /\ requestBlocked) THEN "high"
  ELSE IF evidenceCount >= 2 \/ requestBlocked THEN "medium"
  ELSE "low"

\* is_actively_blocking: isBlocking alone
activelyBlocking_challengeAlone(isBlocking, requestBlocked) == isBlocking

\* is_actively_blocking: isBlocking && requestBlocked
activelyBlocking(isBlocking, requestBlocked) == isBlocking /\ requestBlocked

\* the body of the loop over ANTI_BOT_SIGNATURES, for one signature
detectionOf(sig, html, requestBlocked) ==
  LET challengeHits == SelectSeq(sig.challengePatterns, LAMBDA p : test(p, html))
      htmlHits == SelectSeq(sig.htmlPatterns, LAMBDA p : test(p, html))
      evidence ==
        [i \in 1..Len(challengeHits) |-> "Challenge pattern: " \o challengeHits[i]]
        \o [i \in 1..Len(htmlHits) |-> "Presence detected: " \o htmlHits[i]]
      isBlocking == Len(challengeHits) > 0
  IN [name |-> sig.name,
      confidence |-> confidenceOf(isBlocking, Len(evidence), requestBlocked),
      is_actively_blocking |-> activelyBlocking(isBlocking, requestBlocked),
      evidence |-> evidence]

\* detectAntiBotsInHtml: the detections of the signatures with evidence, in the
\* order of ANTI_BOT_SIGNATURES
detectAntiBotsInHtml(html, requestBlocked) ==
  SelectSeq([i \in DOMAIN ANTI_BOT_SIGNATURES |->
               detectionOf(ANTI_BOT_SIGNATURES[i], html, requestBlocked)],
            LAMBDA d : Len(d.evidence) > 0)

----------------------------------------------------------------------------
(* The API client: getErrorType, getErrorMessage, makeRequest.             *)

\* the switch without the case 502
getErrorType_noBadGateway(statusCode) ==
  CASE statusCode = 401 -> "auth_failed"
    [] statusCode = 403 -> "forbidden"
    [] statusCode = 404 -> "not_found"
    [] statusCode = 429 -> "rate_limited"
    [] statusCode = 500 -> "server_error"
    [] statusCode = 503 -> "service_unavailable"
    [] OTHER -> "unknown"

getErrorType(statusCode) ==
  CASE statusCode = 401 -> "auth_failed"
    [] statusCode = 403 -> "forbidden"
    [] statusCode = 404 -> "not_found"
    [] statusCode = 429 -> "rate_limited"
    [] statusCode = 500 -> "server_error"
    [] statusCode = 502 -> "bad_gateway"
    [] statusCode = 503 -> "service_unavailable"
    [] OTHER -> "unknown"

getErrorMessage(errorType, statusCode) ==
  CASE errorType = "auth_failed" ->
         "Invalid API Key. Please check your SCRAPEOPS_API_KEY environment variable."
    [] errorType = "forbidden" ->
         "Access denied (HTTP 403). The target website may be blocking the request."
    [] errorType = "not_found" ->
         "Page not found (HTTP 404). Please verify the URL is correct."
    [] errorType = "rate_limited" ->
         "Rate limited (HTTP 429). Too many requests. Please wait before retrying."
    [] errorType = "server_error" ->
         "Server error (HTTP 500). The request failed on ScrapeOps servers."
    [] errorType = "bad_gateway" -> "Bad gateway (HTTP 502). There was a gateway error."
    [] errorType = "service_unavailable" ->
         "Service unavailable (HTTP 503). The service is temporarily down."
    [] errorType = "network_error" ->
         "Network error. Please check your internet connection."
    [] OTHER -> "Request failed with status " \o ToString(statusCode) \o "."

\* String(value)
ToJsString(v) ==
  CASE v.t = "undefined" -> "undefined"
    [] v.t = "boolean" -> IF v.b THEN "true" ELSE "false"
    [] v.t = "string" -> v.s
    [] v.t = "number" -> IF v.nan THEN "NaN" ELSE ToString(v.n)

\* buildQueryString: the query parameters of the outgoing request; an empty
\* string is left out
buildQueryString(p) ==
  [k \in {x \in DOMAIN p : p[x] # Str("")} |-> ToJsString(p[k])]

\* removeEmptyValues: a null or undefined value and a blank string are left out
\* (no parameter of the proxy request is an array or an object)
removeEmptyValues(obj) ==
  [k \in {x \in DOMAIN obj : obj[x] # Undefined /\ obj[x] # Str("") /\ obj[x] # Str(" ")} |->
     obj[k]]

\* makeRequest's queryParams: {url: params.url || '', api_key: apiKey, ...params}
queryParams(key, p) ==
  p @@ [url |-> IF IsTruthy(Get(p, "url")) THEN Get(p, "url") ELSE Str(""),
        api_key |-> Str(key)]

NoError == [t |-> "null"]
ErrorOf(message) == [t |-> "error", message |-> message]

NoResult == [pending |-> TRUE]

\* the outcomes of one transport call: fetch rejects, or a response arrives; the
\* body of a 2xx response is then read with response.json() or response.text()
OkStatuses == {200, 204}
NotOkStatuses == {401, 403, 404, 418, 429, 500, 502, 503}

\* "json": a JSON document; "json_screenshot": a JSON document with a screenshot;
\* "html": text that is no JSON; "aborted": the connection drops while the body is read
Bodies == {"json", "json_screenshot", "html", "aborted"}

ThrowOutcome == [kind |-> "throw", message |-> "fetch failed"]

ResponseOutcome(status, contentTypeJson, body) ==
  [kind |-> "response", status |-> status, contentTypeJson |-> contentTypeJson, body |-> body]

\* response.json() of a body
JsonThrows(body) == body \in {"html", "aborted"} \cup Pages

\* response.text() of a body
TextThrows(body) == body = "aborted"

ParsedJson(body) ==
  IF body = "json_screenshot"
  THEN [t |-> "object", screenshot |-> "iVBORw0KGgo=", data |-> "<html></html>"]
  ELSE [t |-> "object", data |-> "<html></html>"]

TextOf(body) == [t |-> "string", s |-> body]

\* while (attempt <= RETRY_CONFIG.maxAttempts)
loopCondition_oneMore(a) == JsLess(Num(a), JsMinus(RETRY_CONFIG.maxAttempts, -1))

loopCondition(a) == JsLess(Num(a), RETRY_CONFIG.maxAttempts)

\* if (errorType === 'auth_failed') return ...
isAuthFailed(errorType) == errorType = "auth_failed"

\* if (status === 500 && attempt < RETRY_CONFIG.maxAttempts - 1)
\* the retry test with 429 retried as well
shouldRetryStatus_rateLimit(status, a) ==
  status \in {429, 500} /\ JsLess(Num(a), JsMinus(RETRY_CONFIG.maxAttempts, 1))

shouldRetryStatus(status, a) ==
  status = 500 /\ JsLess(Num(a), JsMinus(RETRY_CONFIG.maxAttempts, 1))

\* delay *= 2, with the doubling forgotten
nextDelay_constant(d) == d

nextDelay(d) == JsTimes(d, 2)

\* catch: if (attempt < 1)
shouldRetryNetwork(a) == a < 1

failureResult(status, a) ==
  [success |-> FALSE,
   error |-> getErrorMessage(getErrorType(status), status),
   errorType |-> getErrorType(status),
   statusCode |-> status,
   retriesAttempted |-> a]

successResult(data, status, a) ==
  [success |-> TRUE, data |-> data, statusCode |-> status, retriesAttempted |-> a]

\* the return after the loop: lastError instanceof Error ? lastError.message : String(lastError)
networkErrorResult(err, a) ==
  [success |-> FALSE,
   error |-> "Network error: " \o (IF err.t = "error" THEN err.message ELSE "null"),
   errorType |-> "network_error",
   retriesAttempted |-> a]

\* makeRequest is called: the statements before the loop
EnterMakeRequest(key, p) ==
  /\ apiKey' = key
  /\ params' = p
  /\ pc' = "loop"
  /\ attempt' = 0
  /\ delay' = RETRY_CONFIG.initialDelay
  /\ lastError' = NoError
  /\ result' = NoResult
  /\ UNCHANGED <<fetches, sleeps, outcomes>>

\* the loop test holds: fetch(url) is issued
IssueFetch ==
  /\ pc = "loop"
  /\ loopCondition(attempt)
  /\ pc' = "fetch"
  /\ fetches' = Append(fetches, buildQueryString(queryParams(apiKey, params)))
  /\ UNCHANGED <<apiKey, params, attempt, delay, lastError, result, sleeps, outcomes>>
  /\ UNCHANGED <<env, toolVars, gateIn, analyzer, parked>>

\* the loop test fails: the return after the loop
ExitLoop ==
  /\ pc = "loop"
  /\ ~loopCondition(attempt)
  /\ pc' = "resolved"
  /\ result' = networkErrorResult(lastError, attempt)
  /\ UNCHANGED <<apiKey, params, attempt, delay, lastError, fetches, sleeps, outcomes>>
  /\ UNCHANGED <<env, toolVars, gateIn, analyzer, parked>>

\* the catch block, entered with the error thrown in the try block
Catch(err) ==
  /\ lastError' = err
  /\ IF shouldRetryNetwork(attempt)
     THEN /\ pc' = "sleep_network"
          /\ sleeps' = Append(sleeps, delay)
          /\ UNCHANGED result
     ELSE /\ pc' = "resolved"
          /\ result' = networkErrorResult(err, attempt)
          /\ UNCHANGED sleeps
  /\ UNCHANGED <<apiKey, params, attempt, delay, fetches>>
  /\ UNCHANGED <<env, toolVars, gateIn, analyzer, parked>>

\* fetch rejects
FetchThrows ==
  /\ pc = "fetch"
  /\ outcomes' = Append(outcomes, ThrowOutcome)
  /\ Catch(ErrorOf(ThrowOutcome.message))

\* the handling of a response with !response.ok without the auth_failed return
\* and with every status retried while attempts remain
ResponseNotOk_retriesEveryStatus(status) ==
  /\ pc = "fetch"
  /\ outcomes' = Append(outcomes, ResponseOutcome(status, FALSE, "html"))
  /\ IF JsLess(Num(attempt), JsMinus(RETRY_CONFIG.maxAttempts, 1))
     THEN /\ pc' = "sleep_500"
          /\ sleeps' = Append(sleeps, delay)
          /\ UNCHANGED result
     ELSE /\ pc' = "resolved"
          /\ result' = failureResult(status, attempt)
          /\ UNCHANGED sleeps
  /\ UNCHANGED <<apiKey, params, attempt, delay, lastError, fetches>>
  /\ UNCHANGED <<env, toolVars, gateIn, analyzer, parked>>

\* a response with !response.ok arrives; its body is not read
ResponseNotOkWith(status, body) ==
  /\ pc = "fetch"
  /\ outcomes' = Append(outcomes, ResponseOutcome(status, FALSE, body))
  /\ IF isAuthFailed(getErrorType(status))
     THEN /\ pc' = "resolved"
          /\ result' = failureResult(status, attempt)
          /\ UNCHANGED sleeps
     ELSE IF shouldRetryStatus(status, attempt)
     THEN /\ pc' = "sleep_500"
          /\ sleeps' = Append(sleeps, delay)
          /\ UNCHANGED result
     ELSE /\ pc' = "resolved"
          /\ result' = failureResult(status, attempt)
          /\ UNCHANGED sleeps
  /\ UNCHANGED <<apiKey, params, attempt, delay, lastError, fetches>>
  /\ UNCHANGED <<env, toolVars, gateIn, analyzer, parked>>

\* a response with !response.ok arrives, with an error page as its body
ResponseNotOk(status) ==
  /\ pc = "fetch"
  /\ outcomes' = Append(outcomes, ResponseOutcome(status, FALSE, "html"))
  /\ IF isAuthFailed(getErrorType(status))
     THEN /\ pc' = "resolved"
          /\ result' = failureResult(status, attempt)
          /\ UNCHANGED sleeps
     ELSE IF shouldRetryStatus(status, attempt)
     THEN /\ pc' = "sleep_500"
          /\ sleeps' = Append(sleeps, delay)
          /\ UNCHANGED result
     ELSE /\ pc' = "resolved"
          /\ result' = failureResult(status, attempt)
          /\ UNCHANGED sleeps
  /\ UNCHANGED <<apiKey, params, attempt, delay, lastError, fetches>>
  /\ UNCHANGED <<env, toolVars, gateIn, analyzer, parked>>

\* a 2xx response arrives and its body is read
ResponseOk(status, contentTypeJson, body) ==
  /\ pc = "fetch"
  /\ outcomes' = Append(outcomes, ResponseOutcome(status, contentTypeJson, body))
  /\ IF contentTypeJson \/ IsTruthy(Get(params, "json_response"))
     THEN IF JsonThrows(body)
          THEN Catch(ErrorOf("Unexpected token < in JSON"))
          ELSE /\ pc' = "resolved"
               /\ result' = successResult(ParsedJson(body), status, attempt)
               /\ UNCHANGED <<apiKey, params, attempt, delay, lastError, fetches, sleeps>>
               /\ UNCHANGED <<env, toolVars, gateIn, analyzer, parked>>
     ELSE IF TextThrows(body)
          THEN Catch(ErrorOf("terminated"))
          ELSE /\ pc' = "resolved"
               /\ result' = successResult(TextOf(body), status, attempt)
               /\ UNCHANGED <<apiKey, params, attempt, delay, lastError, fetches, sleeps>>
               /\ UNCHANGED <<env, toolVars, gateIn, analyzer, parked>>

\* the backoff after a 500 with attempt++ forgotten
Backoff500Done_noIncrement ==
  /\ pc = "sleep_500"
  /\ delay' = nextDelay(delay)
  /\ pc' = "loop"
  /\ UNCHANGED <<apiKey, params, attempt, lastError, result, fetches, sleeps, outcomes>>
  /\ UNCHANGED <<env, toolVars, gateIn, analyzer, parked>>

\* the backoff after a 500 is over: delay *= 2; attempt++; continue
Backoff500Done ==
  /\ pc = "sleep_500"
  /\ delay' = nextDelay(delay)
  /\ attempt' = attempt + 1
  /\ pc' = "loop"
  /\ UNCHANGED <<apiKey, params, lastError, result, fetches, sleeps, outcomes>>
  /\ UNCHANGED <<env, toolVars, gateIn, analyzer, parked>>

\* the sleep after a network error is over: attempt++; continue
BackoffNetworkDone ==
  /\ pc = "sleep_network"
  /\ attempt' = attempt + 1
  /\ pc' = "loop"
  /\ UNCHANGED <<apiKey, params, delay, lastError, result, fetches, sleeps, outcomes>>
  /\ UNCHANGED <<env, toolVars, gateIn, analyzer, parked>>

----------------------------------------------------------------------------
(* makeRequest on its own, called as the analysis tools call it.           *)

Url == "https://example.com"
ApiKey == "test-key"

DirectParams ==
  {[url |-> Str(Url)],
   [url |-> Str(Url), render_js |-> Bool(TRUE)],
   [url |-> Str(Url), json_response |-> Bool(TRUE)]}

NoCall == [none |-> TRUE]

\* no call of fetchWithTimeout is in progress
NoAnalyzer ==
  [pc |-> "idle", timer |-> "unset", aborted |-> FALSE, label |-> "", timeoutMs |-> 0,
   outcome |-> NoCall]

Init ==
  /\ env \in Environments
  /\ tool = "none"
  /\ args = NoCall
  /\ requestParams = EmptyObj
  /\ usedOptions = EmptyObj
  /\ validation = NoCall
  /\ tpc = "none"
  /\ envelope = NoCall
  /\ noJsResult = NoResult
  /\ apiKey = ""
  /\ params = EmptyObj
  /\ pc = "idle"
  /\ attempt = 0
  /\ delay = Num(0)
  /\ lastError = NoError
  /\ result = NoResult
  /\ fetches = <<>>
  /\ sleeps = <<>>
  /\ outcomes = <<>>
  /\ gateIn = NoCall
  /\ analyzer = NoAnalyzer
  /\ parked = NoCall

CallMakeRequest(p) ==
  /\ pc = "idle"
  /\ EnterMakeRequest(ApiKey, removeEmptyValues(p))
  /\ UNCHANGED <<env, toolVars, gateIn, analyzer, parked>>

Next ==
  \/ \E p \in DirectParams : CallMakeRequest(p)
  \/ IssueFetch
  \/ ExitLoop
  \/ FetchThrows
  \/ \E status \in NotOkStatuses : ResponseNotOk(status)
  \/ \E status \in OkStatuses, ct \in BOOLEAN, body \in Bodies : ResponseOk(status, ct, body)
  \/ Backoff500Done
  \/ BackoffNetworkDone

Spec == Init /\ [][Next]_vars

\* a transport call that was issued completes, one way or the other
TransportCompletes ==
  \/ FetchThrows
  \/ \E status \in NotOkStatuses : ResponseNotOk(status)
  \/ \E status \in OkStatuses, ct \in BOOLEAN, body \in Bodies : ResponseOk(status, ct, body)

\* the event loop runs a continuation that is ready, every transport call
\* completes and every timer of a backoff sleep fires
Fairness ==
  /\ WF_vars(IssueFetch)
  /\ WF_vars(ExitLoop)
  /\ WF_vars(TransportCompletes)
  /\ WF_vars(Backoff500Done)
  /\ WF_vars(BackoffNetworkDone)

SpecLive == Init /\ [][Next]_vars /\ Fairness

----------------------------------------------------------------------------
(* The proxy tools maps_web, extract_data and return_links.                *)

\* getApiKey: session?.scrapeOpsApiKey || process.env.SCRAPEOPS_API_KEY; the
\* empty string stands for the throw 'API key is required'
getApiKey(session) ==
  IF IsTruthy(Get(session, "scrapeOpsApiKey")) THEN session.scrapeOpsApiKey.s
  ELSE IF "SCRAPEOPS_API_KEY" \in DOMAIN env /\ env.SCRAPEOPS_API_KEY # <<>> THEN "env-key"
  ELSE ""

\* the option blocks with the assignments to usedOptions left out
Assign_requestOnly(cond, st, rp, uo) ==
  IF cond
  THEN [requestParams |-> rp @@ st.requestParams, usedOptions |-> st.usedOptions]
  ELSE st

\* if (cond) { requestParams.x = ...; usedOptions.y = ... }: rp and uo hold the
\* assignments of the block
Assign(cond, st, rp, uo) ==
  IF cond
  THEN [requestParams |-> rp @@ st.requestParams, usedOptions |-> uo @@ st.usedOptions]
  ELSE st

\* the value of key k of object o, as the one-key object {k2: o[k]}
Field(k2, v) == [x \in {k2} |-> v]

\* if (params.optimize_request) { ...; if (params.max_request_cost) { ... } }
AssignOptimize(a, st) ==
  LET s1 == Assign(IsTruthy(Get(a, "optimize_request")), st,
                   [optimize_request |-> Bool(TRUE)], [optimize_request |-> Bool(TRUE)])
  IN Assign(IsTruthy(Get(a, "optimize_request")) /\ IsTruthy(Get(a, "max_request_cost")), s1,
            Field("max_request_cost", Get(a, "max_request_cost")),
            Field("max_request_cost", Get(a, "max_request_cost")))

\* the four blocks country, residential, mobile, premium that open every tool
AssignProxy(a, st) ==
  LET s1 == Assign(IsTruthy(Get(a, "country")), st,
                   Field("country", Get(a, "country")), Field("country", Get(a, "country")))
      s2 == Assign(IsTruthy(Get(a, "residential")), s1,
                   [residential |-> Bool(TRUE)], [residential |-> Bool(TRUE)])
      s3 == Assign(IsTruthy(Get(a, "mobile")), s2, [mobile |-> Bool(TRUE)], [mobile |-> Bool(TRUE)])
  IN Assign(IsTruthy(Get(a, "premium")), s3,
            Field("premium", Get(a, "premium")), Field("premium", Get(a, "premium")))

\* the body of maps_web's execute up to validateParams
mapsWebBuild(a) ==
  LET s0 == [requestParams |-> [url |-> Get(a, "url")], usedOptions |-> EmptyObj]
      s1 == AssignProxy(a, s0)
      s2 == Assign(IsTruthy(Get(a, "render_js")), s1,
                   [render_js |-> Bool(TRUE)], [render_js |-> Bool(TRUE)])
      s3 == Assign(IsTruthy(Get(a, "wait_for")), s2,
                   Field("wait_for", Get(a, "wait_for")) @@ [render_js |-> Bool(TRUE)],
                   Field("wait_for", Get(a, "wait_for")) @@ [render_js |-> Bool(TRUE)])
      s4 == Assign(IsTruthy(Get(a, "wait")), s3,
                   Field("wait", Get(a, "wait")), Field("wait", Get(a, "wait")))
      s5 == Assign(IsTruthy(Get(a, "scroll")), s4,
                   Field("scroll", Get(a, "scroll")) @@ [render_js |-> Bool(TRUE)],
                   Field("scroll", Get(a, "scroll")) @@ [render_js |-> Bool(TRUE)])
      s6 == Assign(IsTruthy(Get(a, "screenshot")), s5,
                   [screenshot |-> Bool(TRUE), render_js |-> Bool(TRUE),
                    json_response |-> Bool(TRUE)],
                   [screenshot |-> Bool(TRUE), render_js |-> Bool(TRUE)])
      s7 == Assign(IsTruthy(Get(a, "bypass_level")), s6,
                   Field("bypass", Get(a, "bypass_level")),
                   Field("bypass_level", Get(a, "bypass_level")))
      s8 == Assign(IsTruthy(Get(a, "device_type")), s7,
                   Field("device_type", Get(a, "device_type")),
                   Field("device_type", Get(a, "device_type")))
      s9 == Assign(Get(a, "follow_redirects") # Undefined, s8,
                   Field("follow_redirects", Get(a, "follow_redirects")),
                   Field("follow_redirects", Get(a, "follow_redirects")))
      s10 == Assign(IsTruthy(Get(a, "return_status_codes")), s9,
                    [initial_status_code |-> Bool(TRUE), final_status_code |-> Bool(TRUE),
                     json_response |-> Bool(TRUE)],
                    [return_status_codes |-> Bool(TRUE)])
      s11 == Assign(IsTruthy(Get(a, "keep_headers")), s10,
                    [keep_headers |-> Bool(TRUE)], [keep_headers |-> Bool(TRUE)])
      s12 == Assign(IsTruthy(Get(a, "session_number")), s11,
                    Field("session_number", Get(a, "session_number")),
                    Field("session_number", Get(a, "session_number")))
  IN AssignOptimize(a, s12)

extractDataBuild(a) ==
  LET s0 == [requestParams |-> [url |-> Get(a, "url"), json_response |-> Bool(TRUE)],
             usedOptions |-> EmptyObj]
      m1 == Assign(Get(a, "mode") = Str("auto"), s0, [auto_extract |-> Bool(TRUE)], EmptyObj)
      m2 == Assign(Get(a, "mode") = Str("llm"), m1, [llm_extract |-> Bool(TRUE)], EmptyObj)
      m3 == Assign(Get(a, "mode") = Str("llm") /\ IsTruthy(Get(a, "data_schema")), m2,
                   Field("llm_data_schema", Get(a, "data_schema")), EmptyObj)
      m4 == Assign(Get(a, "mode") = Str("llm") /\ IsTruthy(Get(a, "response_format")), m3,
                   Field("llm_extract_response_type", Get(a, "response_format")), EmptyObj)
      s1 == AssignProxy(a, m4)
      s2 == Assign(IsTruthy(Get(a, "render_js")), s1,
                   [render_js |-> Bool(TRUE)], [render_js |-> Bool(TRUE)])
      s3 == Assign(IsTruthy(Get(a, "wait_for")), s2,
                   Field("wait_for", Get(a, "wait_for")) @@ [render_js |-> Bool(TRUE)],
                   Field("wait_for", Get(a, "wait_for")) @@ [render_js |-> Bool(TRUE)])
      s4 == Assign(IsTruthy(Get(a, "wait")), s3,
                   Field("wait", Get(a, "wait")), Field("wait", Get(a, "wait")))
      s7 == Assign(IsTruthy(Get(a, "bypass_level")), s4,
                   Field("bypass", Get(a, "bypass_level")),
                   Field("bypass_level", Get(a, "bypass_level")))
      s8 == Assign(IsTruthy(Get(a, "device_type")), s7,
                   Field("device_type", Get(a, "device_type")),
                   Field("device_type", Get(a, "device_type")))
      s9 == Assign(Get(a, "follow_redirects") # Undefined, s8,
                   Field("follow_redirects", Get(a, "follow_redirects")),
                   Field("follow_redirects", Get(a, "follow_redirects")))
      s11 == Assign(IsTruthy(Get(a, "keep_headers")), s9,
                    [keep_headers |-> Bool(TRUE)], [keep_headers |-> Bool(TRUE)])
      s12 == Assign(IsTruthy(Get(a, "session_number")), s11,
                    Field("session_number", Get(a, "session_number")),
                    Field("session_number", Get(a, "session_number")))
  IN AssignOptimize(a, s12)

returnLinksBuild(a) ==
  LET s0 == [requestParams |-> [url |-> Get(a, "url"), return_links |-> Bool(TRUE)],
             usedOptions |-> EmptyObj]
      s1 == AssignProxy(a, s0)
      s7 == Assign(IsTruthy(Get(a, "bypass_level")), s1,
                   Field("bypass", Get(a, "bypass_level")),
                   Field("bypass_level", Get(a, "bypass_level")))
      s12 == Assign(IsTruthy(Get(a, "session_number")), s7,
                    Field("session_number", Get(a, "session_number")),
                    Field("session_number", Get(a, "session_number")))
  IN AssignOptimize(a, s12)

Build(t, a) ==
  CASE t = "maps_web" -> mapsWebBuild(a)
    [] t = "extract_data" -> extractDataBuild(a)
    [] t = "return_links" -> returnLinksBuild(a)

\* errors.push(e) when cond
PushIf(cond, q, e) == IF cond THEN Append(q, e) ELSE q

validateParams(p) ==
  LET renderOff == Get(p, "render_js") = Bool(FALSE)
      e1 == PushIf(renderOff /\ IsTruthy(Get(p, "wait_for")), <<>>,
                   "Conflict: 'wait_for' requires JavaScript rendering, but 'render_js' is explicitly set to false. Remove 'render_js: false' or remove 'wait_for'.")
      e2 == PushIf(renderOff /\ IsTruthy(Get(p, "scroll")), e1,
                   "Conflict: 'scroll' requires JavaScript rendering, but 'render_js' is explicitly set to false. Remove 'render_js: false' or remove 'scroll'.")
      e3 == PushIf(renderOff /\ IsTruthy(Get(p, "screenshot")), e2,
                   "Conflict: 'screenshot' requires JavaScript rendering, but 'render_js' is explicitly set to false. Remove 'render_js: false' or remove 'screenshot'.")
      w1 == PushIf(IsTruthy(Get(p, "optimize_request")) /\ IsTruthy(Get(p, "bypass_level")), <<>>,
                   "Warning: Using 'optimize_request' with 'bypass_level' may cause conflicts. The optimizer may override your bypass settings.")
      w2 == PushIf(IsTruthy(Get(p, "optimize_request")) /\ IsTruthy(Get(p, "premium")), w1,
                   "Warning: Using 'optimize_request' with 'premium' may cause conflicts. The optimizer may override your premium settings.")
      e4 == PushIf(/\ Get(p, "session_number") # Undefined
                   /\ \/ JsLess(Get(p, "session_number"), Num(1))
                      \/ JsLess(Num(10000), Get(p, "session_number")),
                   e3, "Invalid 'session_number': must be between 1 and 10000.")
      e5 == PushIf(IsTruthy(Get(p, "max_request_cost")) /\ ~IsTruthy(Get(p, "optimize_request")),
                   e4, "'max_request_cost' requires 'optimize_request: true' to be set.")
  IN [valid |-> Len(e5) = 0, errors |-> e5, warnings |-> w2]

\* the argument of validateParams: {...params, ...usedOptions} in maps_web and
\* extract_data, usedOptions in return_links
ValidationInput(t, a, used) == IF t = "return_links" THEN used ELSE used @@ a

validationEnvelope(t, a, v) ==
  [success |-> FALSE, url |-> Get(a, "url").s, error |-> "Invalid parameter combination",
   validation_errors |-> v.errors]
  @@ (IF t = "return_links" THEN EmptyObj
      ELSE [action_required |-> "Please fix the parameter conflicts and try again."])

\* what execute returns when makeRequest succeeded
successEnvelope(t, a, v, r) ==
  CASE t = "maps_web" ->
         IF IsTruthy(Get(a, "screenshot")) /\ r.data.t = "object"
            /\ "screenshot" \in DOMAIN r.data
         THEN [success |-> TRUE, url |-> Get(a, "url").s, screenshot |-> r.data.screenshot,
               screenshot_type |-> "base64_png",
               screenshot_usage |-> "Decode this base64 string to get the PNG image",
               message |-> "Screenshot captured successfully"]
         ELSE [text |-> r.data]
    [] t = "extract_data" ->
         [success |-> TRUE, url |-> Get(a, "url").s, extraction_mode |-> Get(a, "mode").s,
          data |-> r.data]
         @@ (IF IsTruthy(Get(a, "data_schema"))
             THEN [data_schema |-> Get(a, "data_schema").s] ELSE EmptyObj)
         @@ (IF Len(v.warnings) > 0 THEN [warnings |-> v.warnings] ELSE EmptyObj)
    [] t = "return_links" ->
         [success |-> TRUE, url |-> Get(a, "url").s,
          status |-> IF r.data.t = "object" /\ "status" \in DOMAIN r.data
                     THEN r.data.status ELSE "links_extract_successful",
          data |-> IF r.data.t = "object" /\ "data" \in DOMAIN r.data
                   THEN r.data.data ELSE r.data]

\* what execute returns when makeRequest failed: generateErrorResponse(params.url,
\* result.error || 'Unknown error', result.errorType, result.statusCode,
\* usedOptions, result.retriesAttempted || 0)
failureEnvelope(a, used, r) ==
  generateErrorResponse(Get(a, "url").s,
                        IF r.error # "" THEN r.error ELSE "Unknown error",
                        Str(r.errorType),
                        IF "statusCode" \in DOMAIN r THEN Num(r.statusCode) ELSE Undefined,
                        used,
                        r.retriesAttempted)

\* execute up to its await: getApiKey, the option blocks, validateParams and the
\* call of makeRequest
Execute(t, a, session) ==
  /\ tpc = "idle"
  /\ tool' = t
  /\ args' = a
  /\ IF getApiKey(session) = ""
     THEN /\ tpc' = "thrown"
          /\ envelope' = [thrown |-> "API key is required. Set SCRAPEOPS_API_KEY environment variable."]
          /\ UNCHANGED <<requestParams, usedOptions, validation, reqVars>>
     ELSE LET built == Build(t, a)
              v == validateParams(ValidationInput(t, a, built.usedOptions))
          IN /\ requestParams' = built.requestParams
             /\ usedOptions' = built.usedOptions
             /\ validation' = v
             /\ IF ~v.valid
                THEN /\ tpc' = "returned"
                     /\ envelope' = validationEnvelope(t, a, v)
                     /\ UNCHANGED reqVars
                ELSE /\ tpc' = "awaiting"
                     /\ EnterMakeRequest(getApiKey(session),
                                         removeEmptyValues(built.requestParams))
                     /\ UNCHANGED envelope
  /\ UNCHANGED <<env, gateIn, analyzer, parked, noJsResult>>

\* the failure path retrying by itself with the options it would have suggested
Resume_autoEscalates ==
  /\ tpc = "awaiting"
  /\ pc = "resolved"
  /\ IF result.success
     THEN /\ envelope' = successEnvelope(tool, args, validation, result)
          /\ tpc' = "returned"
          /\ UNCHANGED <<requestParams, usedOptions, reqVars>>
     ELSE IF "permission_request" \in DOMAIN failureEnvelope(args, usedOptions, result)
     THEN LET suggested ==
                failureEnvelope(args, usedOptions, result).permission_request.suggested_options
              sent == [k \in {IF x = "bypass_level" THEN "bypass" ELSE x : x \in DOMAIN suggested} |->
                         IF k = "bypass" THEN suggested.bypass_level ELSE suggested[k]]
          IN /\ requestParams' = sent @@ requestParams
             /\ usedOptions' = suggested @@ usedOptions
             /\ EnterMakeRequest(apiKey, removeEmptyValues(sent @@ requestParams))
             /\ UNCHANGED <<tpc, envelope>>
     ELSE /\ envelope' = failureEnvelope(args, usedOptions, result)
          /\ tpc' = "returned"
          /\ UNCHANGED <<requestParams, usedOptions, reqVars>>
  /\ UNCHANGED <<env, tool, args, validation, gateIn, analyzer, parked, noJsResult>>

\* execute after its await: the result of makeRequest becomes the return value
Resume ==
  /\ tool \in {"maps_web", "extract_data", "return_links"}
  /\ tpc = "awaiting"
  /\ pc = "resolved"
  /\ envelope' = IF result.success
                 THEN successEnvelope(tool, args, validation, result)
                 ELSE failureEnvelope(args, usedOptions, result)
  /\ tpc' = "returned"
  /\ UNCHANGED <<env, tool, args, requestParams, usedOptions, validation, reqVars, gateIn, analyzer, parked, noJsResult>>

MaxGiven == 2

\* the values an optional argument takes in a call
ArgValues(key) ==
  CASE key \in {"render_js", "residential", "follow_redirects"} -> {Bool(FALSE), Bool(TRUE)}
    [] key \in {"screenshot", "mobile", "optimize_request", "keep_headers",
                "return_status_codes"} -> {Bool(TRUE)}
    [] key = "country" -> {Str("us")}
    [] key = "premium" -> {Str("level_1")}
    [] key = "bypass_level" -> {Str("generic_level_2")}
    [] key = "device_type" -> {Str("mobile")}
    [] key = "wait_for" -> {Str(".product-list")}
    [] key = "wait" -> {Num(2000)}
    [] key = "scroll" -> {Num(1000)}
    [] key = "session_number" -> {Num(0), Num(5), Num(10001)}
    [] key = "max_request_cost" -> {Num(10)}
    [] key = "data_schema" -> {Str("product_page")}
    [] key = "response_format" -> {Str("markdown")}

\* the optional arguments of each tool's schema that a call draws from
OptionalKeys(t) ==
  CASE t = "maps_web" ->
         {"render_js", "screenshot", "residential", "bypass_level", "wait_for", "scroll",
          "session_number", "optimize_request", "max_request_cost"}
    [] t = "extract_data" ->
         {"data_schema", "residential", "render_js", "wait_for", "bypass_level",
          "session_number", "optimize_request"}
    [] t = "return_links" ->
         {"residential", "bypass_level", "session_number", "optimize_request",
          "max_request_cost"}

RequiredArgs(t) ==
  IF t = "extract_data"
  THEN {[url |-> Str(Url), mode |-> Str(m)] : m \in {"auto", "llm"}}
  ELSE {[url |-> Str(Url)]}

\* the calls of tool t with at most MaxGiven optional arguments
ToolArgs(t) ==
  UNION {{o @@ base :
            o \in {f \in [keys -> UNION {ArgValues(k) : k \in keys}] :
                     \A k \in keys : f[k] \in ArgValues(k)},
            base \in RequiredArgs(t)} :
         keys \in {ks \in SUBSET OptionalKeys(t) : Cardinality(ks) <= MaxGiven}}

ProxyTools == {"maps_web", "extract_data", "return_links"}

Sessions == {[scrapeOpsApiKey |-> Str("session-key")], EmptyObj}

ToolEnvironments == {EmptyObj, [SCRAPEOPS_RETRY_MAX_ATTEMPTS |-> <<"2">>]}

InitTool ==
  /\ env \in ToolEnvironments
  /\ tool = "none"
  /\ args = NoCall
  /\ requestParams = EmptyObj
  /\ usedOptions = EmptyObj
  /\ validation = NoCall
  /\ tpc = "idle"
  /\ envelope = NoCall
  /\ noJsResult = NoResult
  /\ apiKey = ""
  /\ params = EmptyObj
  /\ pc = "idle"
  /\ attempt = 0
  /\ delay = Num(0)
  /\ lastError = NoError
  /\ result = NoResult
  /\ fetches = <<>>
  /\ sleeps = <<>>
  /\ outcomes = <<>>
  /\ gateIn = NoCall
  /\ analyzer = NoAnalyzer
  /\ parked = NoCall

NextTool ==
  \/ \E t \in ProxyTools : \E a \in ToolArgs(t), session \in Sessions : Execute(t, a, session)
  \/ IssueFetch
  \/ ExitLoop
  \/ FetchThrows
  \/ \E status \in NotOkStatuses : ResponseNotOk(status)
  \/ \E ct \in BOOLEAN, body \in Bodies : ResponseOk(200, ct, body)
  \/ Backoff500Done
  \/ BackoffNetworkDone
  \/ Resume

SpecTool == InitTool /\ [][NextTool]_vars

----------------------------------------------------------------------------
(* The proxy tools called with every combination of the advanced           *)
(* parameters and of the options that switch rendering on.                 *)

MaxOptions == 2

\* the values an advanced or rendering argument takes in a call
OptionArgValues(key) ==
  CASE key \in {"render_js", "residential", "mobile", "optimize_request", "screenshot"} ->
         {Bool(FALSE), Bool(TRUE)}
    [] key = "premium" -> {Str("level_1")}
    [] key = "bypass_level" -> {Str("generic_level_2")}
    [] key = "wait_for" -> {Str(".product-list")}
    [] key = "scroll" -> {Num(1000)}
    [] key = "country" -> {Str("us")}
    [] key = "wait" -> {Num(2000)}

\* the six advanced parameters, the options that imply rendering and two
\* plain options, as far as the schema of tool t has them
OptionKeys(t) ==
  CASE t = "maps_web" ->
         {"render_js", "residential", "mobile", "premium", "bypass_level",
          "optimize_request", "wait_for", "scroll", "screenshot", "country", "wait"}
    [] t = "extract_data" ->
         {"render_js", "residential", "mobile", "premium", "bypass_level",
          "optimize_request", "wait_for", "country", "wait"}
    [] t = "return_links" ->
         {"residential", "mobile", "premium", "bypass_level", "optimize_request", "country"}

\* the calls of tool t with at most MaxOptions of these arguments
OptionArgs(t) ==
  UNION {{o @@ [url |-> Str(Url)] @@ (IF t = "extract_data" THEN [mode |-> Str("auto")] ELSE EmptyObj) :
            o \in {f \in [keys -> UNION {OptionArgValues(k) : k \in keys}] :
                     \A k \in keys : f[k] \in OptionArgValues(k)}} :
         keys \in {ks \in SUBSET OptionKeys(t) : Cardinality(ks) <= MaxOptions}}

NextOptions ==
  \/ \E t \in ProxyTools : \E a \in OptionArgs(t) :
       Execute(t, a, [scrapeOpsApiKey |-> Str("session-key")])
  \/ IssueFetch
  \/ ExitLoop
  \/ FetchThrows
  \/ \E status \in NotOkStatuses : ResponseNotOk(status)
  \/ \E ct \in BOOLEAN, body \in Bodies : ResponseOk(200, ct, body)
  \/ Backoff500Done
  \/ BackoffNetworkDone
  \/ Resume

SpecOptions == InitTool /\ [][NextOptions]_vars

----------------------------------------------------------------------------
(* generateErrorResponse on its own: every error kind, undefined included, *)
(* with every UsedOptions over the six advanced parameters.                *)

\* the values a UsedOptions key takes, by its declared type; an absent key is undefined
OptionValues(key) ==
  CASE key \in {"render_js", "residential", "mobile", "optimize_request"} ->
         {Bool(FALSE), Bool(TRUE)}
    [] key = "premium" -> {Str("level_1")}
    [] key = "bypass_level" -> {Str("generic_level_2")}
    [] key = "country" -> {Str("us")}

GateKeys ==
  {"render_js", "residential", "mobile", "premium", "bypass_level", "optimize_request",
   "country"}

GateOptions ==
  UNION {{o \in [keys -> UNION {OptionValues(k) : k \in keys}] :
            \A k \in keys : o[k] \in OptionValues(k)} : keys \in SUBSET GateKeys}

GateInputs ==
  [url : {Url},
   error : {"Unknown error", ""},
   errorType : {Str(e) : e \in ErrorTypes} \cup {Undefined},
   statusCode : {Undefined, Num(503)},
   usedOptions : GateOptions,
   retriesAttempted : {0, 2}]

InitGate ==
  /\ env = EmptyObj
  /\ tool = "none"
  /\ args = NoCall
  /\ requestParams = EmptyObj
  /\ usedOptions = EmptyObj
  /\ validation = NoCall
  /\ tpc = "none"
  /\ envelope = NoCall
  /\ noJsResult = NoResult
  /\ apiKey = ""
  /\ params = EmptyObj
  /\ pc = "idle"
  /\ attempt = 0
  /\ delay = Num(0)
  /\ lastError = NoError
  /\ result = NoResult
  /\ fetches = <<>>
  /\ sleeps = <<>>
  /\ outcomes = <<>>
  /\ gateIn \in GateInputs
  /\ analyzer = NoAnalyzer
  /\ parked = NoCall

ApplyGenerateErrorResponse ==
  /\ gateIn # NoCall
  /\ envelope = NoCall
  /\ envelope' = generateErrorResponse(gateIn.url, gateIn.error, gateIn.errorType,
                                       gateIn.statusCode, gateIn.usedOptions,
                                       gateIn.retriesAttempted)
  /\ UNCHANGED <<env, tool, args, requestParams, usedOptions, validation, tpc, reqVars, gateIn, analyzer, parked, noJsResult>>

NextGate == ApplyGenerateErrorResponse

SpecGate == InitGate /\ [][NextGate]_vars

----------------------------------------------------------------------------
(* Properties of the permission gate, under SpecGate.                      *)

GateApplied == gateIn # NoCall /\ envelope # NoCall

HasPermissionRequest(e) == "permission_request" \in DOMAIN e
HasDiagnostic(e) == "diagnostic" \in DOMAIN e

AdvancedNames ==
  {"render_js", "residential", "mobile", "premium", "bypass_level", "optimize_request"}

\* the advanced parameters that have a defined, non-false value in o
AdvancedSetIn(o) == {k \in AdvancedNames \cap DOMAIN o : o[k] # Bool(FALSE)}

\* C1: for every error kind (undefined included) and every usedOptions, the
\* envelope of generateErrorResponse never holds both a permission_request
\* block and a diagnostic block.
C1_BlocksExclusive ==
  GateApplied => ~(HasPermissionRequest(envelope) /\ HasDiagnostic(envelope))

\* C1 witness: each block is produced by some input, here a permission_request
\* for a request whose only option is render_js: false, with no diagnostic.
C1_Witness ==
  /\ GateApplied
  /\ gateIn.usedOptions = [render_js |-> Bool(FALSE)]
  /\ HasPermissionRequest(envelope)
  /\ ~HasDiagnostic(envelope)

\* C2: whenever usedOptions holds a defined, non-false value for one of the six
\* advanced parameters, the envelope has no permission_request block, for
\* every error kind.
C2_NoPermissionWithAdvanced ==
  (GateApplied /\ AdvancedSetIn(gateIn.usedOptions) # {})
    => ~HasPermissionRequest(envelope)

\* C2 witness: a forbidden failure of a request that used premium alone gets no
\* permission_request.
C2_Witness ==
  /\ GateApplied
  /\ gateIn.errorType = Str("forbidden")
  /\ gateIn.usedOptions = [premium |-> Str("level_1")]
  /\ ~HasPermissionRequest(envelope)

\* C3: a permission_request block is present only if error_type is forbidden,
\* rate_limited, server_error or unknown; for not_found, auth_failed,
\* bad_gateway, service_unavailable and network_error it is never present,
\* whatever the used options.
C3_PermissionOnlyForEligibleKinds ==
  GateApplied =>
    /\ HasPermissionRequest(envelope) =>
         envelope.error_type \in {"forbidden", "rate_limited", "server_error", "unknown"}
    /\ gateIn.errorType \in {Str("not_found"), Str("auth_failed"), Str("bad_gateway"),
                             Str("service_unavailable"), Str("network_error")}
         => ~HasPermissionRequest(envelope)

\* C3 witness: a basic request that failed with not_found gets no
\* permission_request, and one that failed with rate_limited gets one (the
\* second is C3_WitnessEligible).
C3_Witness ==
  /\ GateApplied
  /\ gateIn.errorType = Str("not_found")
  /\ gateIn.usedOptions = EmptyObj
  /\ ~HasPermissionRequest(envelope)

C3_WitnessEligible ==
  /\ GateApplied
  /\ gateIn.errorType = Str("rate_limited")
  /\ HasPermissionRequest(envelope)

\* C4: the envelope carries a diagnostic block if and only if the failed
\* request used at least one advanced parameter; its tried_options is then
\* exactly the list of the advanced parameter names that had a defined,
\* non-false value, in the order of ADVANCED_PARAMS, for every error kind.
C4_DiagnosticIffAdvanced ==
  GateApplied =>
    /\ HasDiagnostic(envelope) <=> AdvancedSetIn(gateIn.usedOptions) # {}
    /\ HasDiagnostic(envelope) =>
         LET tried == envelope.diagnostic.tried_options
         IN /\ {tried[i] : i \in DOMAIN tried} = AdvancedSetIn(gateIn.usedOptions)
            /\ Len(tried) = Cardinality(AdvancedSetIn(gateIn.usedOptions))
            /\ \A i, j \in DOMAIN tried :
                 i < j => \E a, b \in DOMAIN ADVANCED_PARAMS :
                            a < b /\ ADVANCED_PARAMS[a] = tried[i] /\ ADVANCED_PARAMS[b] = tried[j]

\* C4 witness: a request with residential: false and two advanced parameters
\* set gets a diagnostic that lists exactly the two.
C4_Witness ==
  /\ GateApplied
  /\ gateIn.usedOptions =
       [residential |-> Bool(FALSE), render_js |-> Bool(TRUE), premium |-> Str("level_1")]
  /\ HasDiagnostic(envelope)
  /\ envelope.diagnostic.tried_options = <<"render_js", "premium">>

----------------------------------------------------------------------------
(* Properties of makeRequest, under Spec.                                  *)

Last(q) == q[Len(q)]

IsResponse(o) == o.kind = "response"
IsThrow(o) == o.kind = "throw"
IsStatus(o, status) == IsResponse(o) /\ o.status = status

Resolved == pc = "resolved"

InitialDelay == RETRY_CONFIG.initialDelay

\* C6 as stated: a makeRequest that receives a 401 returns a terminal failure
\* with retriesAttempted = 0, whatever the earlier transport outcomes.
C6_Original ==
  (Len(outcomes) > 0 /\ IsStatus(Last(outcomes), 401)) =>
    /\ Resolved
    /\ result.success = FALSE
    /\ result.retriesAttempted = 0

\* C6 amended: a 401 response ends makeRequest at once with the failure
\* auth_failed: no sleep and no transport call follows it, and retriesAttempted
\* is the number of retries made before the 401 (0 when the 401 answers the
\* first transport call).
C6_AuthFailedTerminal ==
  (Len(outcomes) > 0 /\ IsStatus(Last(outcomes), 401)) =>
    /\ Resolved
    /\ result.success = FALSE
    /\ result.errorType = "auth_failed"
    /\ result.statusCode = 401
    /\ result.retriesAttempted = Len(outcomes) - 1
    /\ Len(fetches) = Len(outcomes)
    /\ Len(sleeps) = Len(outcomes) - 1

\* C6 witness: with retries configured, a 401 that answers the first transport
\* call ends the request with retriesAttempted = 0.
C6_Witness ==
  /\ RETRY_CONFIG.maxAttempts = Num(3)
  /\ Len(outcomes) = 1
  /\ IsStatus(outcomes[1], 401)
  /\ Resolved
  /\ result.retriesAttempted = 0

\* C7: after a non-2xx response whose status is not 500, makeRequest makes no
\* further transport call and no backoff sleep: it is resolved with the
\* failure of that status, for any maxAttempts and any attempt number.
C7_NoRetryUnless500 ==
  (Len(outcomes) > 0 /\ IsResponse(Last(outcomes))
     /\ Last(outcomes).status \in NotOkStatuses \ {500}) =>
    /\ Resolved
    /\ result.success = FALSE
    /\ result.statusCode = Last(outcomes).status
    /\ Len(fetches) = Len(outcomes)
    /\ Len(sleeps) = Len(outcomes) - 1

\* C7 witness: a 429 that answers the second of three allowed attempts is not
\* retried.
C7_Witness ==
  /\ RETRY_CONFIG.maxAttempts = Num(3)
  /\ Len(outcomes) = 2
  /\ IsStatus(outcomes[1], 500)
  /\ IsStatus(outcomes[2], 429)
  /\ Resolved
  /\ result.errorType = "rate_limited"

\* C8: with maxAttempts = 3 and every transport call answered by a 500,
\* makeRequest makes at most 3 transport calls, sleeps initialDelay before the
\* first retry and twice the previous delay before the second, and returns the
\* failure server_error with retriesAttempted = 2.
C8_BackoffDoubles ==
  (RETRY_CONFIG.maxAttempts = Num(3) /\ pc # "idle"
     /\ \A i \in DOMAIN outcomes : IsStatus(outcomes[i], 500)) =>
    /\ Len(fetches) <= 3
    /\ Len(sleeps) <= 2
    /\ Len(sleeps) >= 1 => sleeps[1] = InitialDelay
    /\ \A i \in 2..Len(sleeps) : sleeps[i] = Num(2 * sleeps[i - 1].n)
    /\ Resolved =>
         /\ Len(outcomes) = 3
         /\ Len(sleeps) = 2
         /\ result.success = FALSE
         /\ result.errorType = "server_error"
         /\ result.statusCode = 500
         /\ result.retriesAttempted = 2

\* C8 witness: three 500 responses in a row with maxAttempts = 3 and the
\* default initial delay.
C8_Witness ==
  /\ RETRY_CONFIG = [maxAttempts |-> Num(3), initialDelay |-> Num(1000)]
  /\ Len(outcomes) = 3
  /\ \A i \in DOMAIN outcomes : IsStatus(outcomes[i], 500)
  /\ Resolved
  /\ sleeps = <<Num(1000), Num(2000)>>

\* an exception of the try block: fetch rejects, or reading the body throws
RaisedException(o) ==
  \/ IsThrow(o)
  \/ /\ IsResponse(o)
     /\ o.status \in OkStatuses
     /\ IF o.contentTypeJson \/ IsTruthy(Get(params, "json_response"))
        THEN JsonThrows(o.body) ELSE TextThrows(o.body)

FirstException == CHOOSE i \in DOMAIN outcomes :
  RaisedException(outcomes[i]) /\ \A j \in 1..(i - 1) : ~RaisedException(outcomes[j])

\* C9 as stated: a transport-level exception is retried exactly once whatever
\* maxAttempts is: after the first exception of a makeRequest one more
\* transport call is executed, and a second exception then yields the
\* failure network_error.
C9_Original ==
  (Resolved /\ \E i \in DOMAIN outcomes : RaisedException(outcomes[i])) =>
    /\ Len(outcomes) >= FirstException + 1
    /\ RaisedException(outcomes[FirstException + 1]) =>
         /\ Len(outcomes) = FirstException + 1
         /\ result.errorType = "network_error"

----------------------------------------------------------------------------
(* Properties of the proxy tools, under SpecTool.                          *)

\* the query of the one proxy request of an invocation, as the arguments fix it
\* before makeRequest is called
FixedQuery ==
  buildQueryString(queryParams(apiKey, removeEmptyValues(Build(tool, args).requestParams)))

\* the query parameters that carry the options generateErrorResponse suggests
SuggestedQueryKeys == {"residential", "bypass", "render_js"}

\* the caller's arguments ask for the option sent as query parameter k
AskedFor(k) ==
  CASE k = "residential" -> IsTruthy(Get(args, "residential"))
    [] k = "bypass" -> IsTruthy(Get(args, "bypass_level"))
    [] k = "render_js" ->
         \E x \in {"render_js", "wait_for", "scroll", "screenshot"} : IsTruthy(Get(args, x))

\* the transport calls one makeRequest may make
Budget ==
  IF RETRY_CONFIG.maxAttempts.nan \/ RETRY_CONFIG.maxAttempts.n < 0
  THEN 0 ELSE RETRY_CONFIG.maxAttempts.n

\* C5: within one invocation of maps_web, extract_data or return_links,
\* makeRequest is called at most once, with the parameter set the arguments
\* fixed before the call: every proxy request of the invocation carries that
\* one query, there are no more requests than one makeRequest may make, and no
\* request carries residential, bypass or render_js unless the caller asked for
\* it. After a failure the tool returns the envelope of generateErrorResponse
\* with no request in flight, and the suggested options appear only in its
\* permission_request.suggested_options.
C5_SingleRequestNoEscalation ==
  tool \in ProxyTools =>
    /\ \A i \in DOMAIN fetches :
         /\ fetches[i] = FixedQuery
         /\ \A k \in SuggestedQueryKeys \cap DOMAIN fetches[i] : AskedFor(k)
    /\ Len(fetches) <= Budget
    /\ tpc = "returned" =>
         /\ pc \in {"idle", "resolved"}
         /\ Len(fetches) = Len(outcomes)
    /\ (tpc = "returned" /\ pc = "resolved" /\ ~result.success) =>
         /\ envelope = failureEnvelope(args, usedOptions, result)
         /\ envelope.success = FALSE
         /\ requestParams = Build(tool, args).requestParams
         /\ usedOptions = Build(tool, args).usedOptions

\* C5 witness: a basic maps_web call is answered 403; the tool has returned an
\* envelope whose permission_request suggests residential and bypass_level,
\* and the one request made carried no suggested option.
C5_Witness ==
  /\ tool = "maps_web"
  /\ args = [url |-> Str(Url)]
  /\ tpc = "returned"
  /\ Len(outcomes) = 1
  /\ IsStatus(outcomes[1], 403)
  /\ "permission_request" \in DOMAIN envelope
  /\ {"residential", "bypass_level"}
       \subseteq DOMAIN envelope.permission_request.suggested_options
  /\ fetches = <<FixedQuery>>
  /\ SuggestedQueryKeys \cap DOMAIN fetches[1] = {}

\* C11 as stated: every 2xx transport response makes makeRequest return the
\* success result with statusCode = the response status and retriesAttempted =
\* attempt, whether the body is read as JSON or as text.
C11_Original ==
  (Len(outcomes) > 0 /\ IsResponse(Last(outcomes)) /\ Last(outcomes).status \in OkStatuses) =>
    /\ Resolved
    /\ result.success = TRUE
    /\ result.statusCode = Last(outcomes).status
    /\ result.retriesAttempted = attempt

----------------------------------------------------------------------------
(* Functions applied on their own: gateIn holds the arguments and envelope *)
(* the value returned.                                                     *)

\* the state before a function is applied on its own to the arguments input
AppliedAlone(input) ==
  /\ env = EmptyObj
  /\ tool = "none"
  /\ args = NoCall
  /\ requestParams = EmptyObj
  /\ usedOptions = EmptyObj
  /\ validation = NoCall
  /\ tpc = "none"
  /\ envelope = NoCall
  /\ noJsResult = NoResult
  /\ apiKey = ""
  /\ params = EmptyObj
  /\ pc = "idle"
  /\ attempt = 0
  /\ delay = Num(0)
  /\ lastError = NoError
  /\ result = NoResult
  /\ fetches = <<>>
  /\ sleeps = <<>>
  /\ outcomes = <<>>
  /\ gateIn = input
  /\ analyzer = NoAnalyzer
  /\ parked = NoCall

\* the function returns value
Return(value) ==
  /\ gateIn # NoCall
  /\ envelope = NoCall
  /\ envelope' = value
  /\ UNCHANGED <<env, tool, args, requestParams, usedOptions, validation, tpc, reqVars, gateIn, analyzer, parked, noJsResult>>

Returned == gateIn # NoCall /\ envelope # NoCall

----------------------------------------------------------------------------
(* getErrorType on its own.                                                *)

MinStatus == 100
MaxStatus == 599

StatusCodes == MinStatus..MaxStatus

InitClassify == \E statusCode \in StatusCodes : AppliedAlone([statusCode |-> statusCode])

ApplyGetErrorType == Return([errorType |-> getErrorType(gateIn.statusCode)])

NextClassify == ApplyGetErrorType

SpecClassify == InitClassify /\ [][NextClassify]_vars

\* the table of the seven classified status codes
StatusTable ==
  (401 :> "auth_failed") @@ (403 :> "forbidden") @@ (404 :> "not_found")
  @@ (429 :> "rate_limited") @@ (500 :> "server_error") @@ (502 :> "bad_gateway")
  @@ (503 :> "service_unavailable")

\* C12: getErrorType is total: it maps 401, 403, 404, 429, 500, 502 and 503 to
\* auth_failed, forbidden, not_found, rate_limited, server_error, bad_gateway
\* and service_unavailable, every other status code to unknown, and never
\* returns network_error.
C12_GetErrorTypeTotal ==
  Returned =>
    /\ envelope.errorType \in ErrorTypes \ {"network_error"}
    /\ gateIn.statusCode \in DOMAIN StatusTable =>
         envelope.errorType = StatusTable[gateIn.statusCode]
    /\ gateIn.statusCode \notin DOMAIN StatusTable => envelope.errorType = "unknown"

\* C12 witness: 502 is classified bad_gateway.
C12_Witness ==
  /\ Returned
  /\ gateIn.statusCode = 502
  /\ envelope.errorType = "bad_gateway"

----------------------------------------------------------------------------
(* Properties of every execute, under SpecTool.                            *)

\* C13 as stated: no execute throws: whatever its collaborators do (no API
\* key, a validation failure, a failed proxy request) it returns an envelope,
\* with success = false on failure.
C13_Original ==
  /\ tpc # "thrown"
  /\ (tpc = "returned" /\ (~validation.valid \/ (pc = "resolved" /\ ~result.success))) =>
       envelope.success = FALSE

----------------------------------------------------------------------------
(* detect_anti_bots, and detectAntiBotsInHtml on its own.                  *)

extractHtml(r) ==
  IF ~r.success THEN ""
  ELSE IF r.data.t = "string" THEN r.data.s
  ELSE IF r.data.t = "object"
  THEN IF "data" \in DOMAIN r.data THEN r.data.data ELSE "{}"
  ELSE ""

\* requestBlocked for every failed response, whatever its status
requestBlockedOf_anyFailure(r) == ~r.success /\ "statusCode" \in DOMAIN r

\* !result.success && (result.statusCode === 403 || result.statusCode === 503)
requestBlockedOf(r) ==
  ~r.success /\ "statusCode" \in DOMAIN r /\ r.statusCode \in {403, 503}

\* if (requestBlocked && antiBotsDetected.length === 0) antiBotsDetected.push(...)
withUnknown(detected, requestBlocked, r) ==
  IF requestBlocked /\ Len(detected) = 0
  THEN Append(detected,
              [name |-> "Unknown Anti-Bot Protection",
               confidence |-> "medium",
               is_actively_blocking |-> TRUE,
               evidence |-> <<"Request blocked with HTTP " \o ToString(r.statusCode)>>])
  ELSE detected

protectionLevel(detected) ==
  IF Len(detected) = 0 THEN "none"
  ELSE IF \E i \in DOMAIN detected : detected[i].is_actively_blocking THEN "high"
  ELSE IF \E i \in DOMAIN detected : detected[i].confidence = "high" THEN "medium"
  ELSE "low"

\* antiBotsDetected.find(d => d.is_actively_blocking) || antiBotsDetected[0]
mainBot(detected) ==
  IF \E i \in DOMAIN detected : detected[i].is_actively_blocking
  THEN detected[CHOOSE i \in DOMAIN detected :
                  /\ detected[i].is_actively_blocking
                  /\ \A j \in 1..(i - 1) : ~detected[j].is_actively_blocking]
  ELSE detected[1]

bypassRecommendations(detected) ==
  LET name == mainBot(detected).name
  IN CASE name = "Cloudflare" ->
            [suggested_bypass_level |-> "cloudflare_level_2", render_js |-> TRUE,
             residential |-> TRUE]
       [] name = "DataDome" -> [suggested_bypass_level |-> "datadome", residential |-> TRUE]
       [] name = "PerimeterX (HUMAN)" ->
            [suggested_bypass_level |-> "perimeterx", residential |-> TRUE]
       [] name = "Incapsula/Imperva" ->
            [suggested_bypass_level |-> "incapsula", residential |-> TRUE]
       [] OTHER ->
            [suggested_bypass_level |-> "generic_level_2", residential |-> TRUE,
             render_js |-> TRUE]

\* the html detect_anti_bots analyses: html || (result.error || '')
analysedText(r) ==
  IF extractHtml(r) # "" THEN extractHtml(r)
  ELSE IF "error" \in DOMAIN r THEN r.error ELSE ""

\* what detect_anti_bots returns for the result r of its proxy request
detectAntiBotsEnvelope(a, r) ==
  LET requestBlocked == requestBlockedOf(r)
      antiBotsDetected ==
        withUnknown(detectAntiBotsInHtml(analysedText(r), requestBlocked), requestBlocked, r)
  IN [success |-> TRUE,
      url |-> Get(a, "url").s,
      request_status |->
        [success |-> r.success, was_blocked |-> requestBlocked]
        @@ (IF "statusCode" \in DOMAIN r THEN [status_code |-> r.statusCode] ELSE EmptyObj),
      anti_bots_detected |-> antiBotsDetected,
      total_protections_found |-> Len(antiBotsDetected),
      protection_level |-> protectionLevel(antiBotsDetected)]
     @@ (IF Len(antiBotsDetected) > 0
         THEN [bypass_recommendations |-> bypassRecommendations(antiBotsDetected)]
         ELSE EmptyObj)

\* detect_anti_bots.execute up to its await
ExecuteDetectAntiBots(a, session) ==
  /\ tpc = "idle"
  /\ tool' = "detect_anti_bots"
  /\ args' = a
  /\ IF getApiKey(session) = ""
     THEN /\ tpc' = "thrown"
          /\ envelope' = [thrown |-> "API key is required. Set SCRAPEOPS_API_KEY environment variable."]
          /\ UNCHANGED reqVars
     ELSE /\ tpc' = "awaiting"
          /\ EnterMakeRequest(getApiKey(session), removeEmptyValues([url |-> Get(a, "url")]))
          /\ UNCHANGED envelope
  /\ UNCHANGED <<env, requestParams, usedOptions, validation, gateIn, analyzer, parked, noJsResult>>

\* detect_anti_bots.execute after its await
ResumeDetectAntiBots ==
  /\ tool = "detect_anti_bots"
  /\ tpc = "awaiting"
  /\ pc = "resolved"
  /\ envelope' = detectAntiBotsEnvelope(args, result)
  /\ tpc' = "returned"
  /\ UNCHANGED <<env, tool, args, requestParams, usedOptions, validation, reqVars, gateIn, analyzer, parked, noJsResult>>

\* detectAntiBotsInHtml applied to the arguments gateIn
ApplyDetectAntiBotsInHtml ==
  /\ tool = "none"
  /\ Return([detected |-> detectAntiBotsInHtml(gateIn.html, gateIn.requestBlocked)])

\* the bodies of the responses detect_anti_bots meets
ResponsePages ==
  {PageOf(fs) : fs \in {{}, {"__cf_chl_"}, {"cf-turnstile"}, {"captcha.awswaf", "g-recaptcha"},
                        {"cf-turnstile", "cf-beacon", "cloudflareinsights.com"}}}

InitAntiBots ==
  \/ \E html \in Pages, requestBlocked \in BOOLEAN :
       AppliedAlone([html |-> html, requestBlocked |-> requestBlocked])
  \/ InitTool

NextAntiBots ==
  \/ ApplyDetectAntiBotsInHtml
  \/ \E session \in Sessions : ExecuteDetectAntiBots([url |-> Str(Url)], session)
  \/ IssueFetch
  \/ ExitLoop
  \/ FetchThrows
  \/ \E status \in NotOkStatuses, body \in ResponsePages : ResponseNotOkWith(status, body)
  \/ \E body \in ResponsePages : ResponseOk(200, FALSE, body)
  \/ ResponseOk(200, TRUE, "json")
  \/ Backoff500Done
  \/ BackoffNetworkDone
  \/ ResumeDetectAntiBots

SpecAntiBots == InitAntiBots /\ [][NextAntiBots]_vars

----------------------------------------------------------------------------
(* Properties of the anti-bot detection, under SpecAntiBots.               *)

\* the number of patterns of the list that match html
Hits(patterns, html) == Cardinality({i \in DOMAIN patterns : test(patterns[i], html)})

ChallengeHits(sig, html) == Hits(sig.challengePatterns, html)

EvidenceCount(sig, html) == Hits(sig.challengePatterns, html) + Hits(sig.htmlPatterns, html)

Signatures == {ANTI_BOT_SIGNATURES[i] : i \in DOMAIN ANTI_BOT_SIGNATURES}

\* the detections of q that carry the name of sig
Named(q, sig) == {i \in DOMAIN q : q[i].name = sig.name}

\* detectAntiBotsInHtml has been applied on its own
DetectReturned == tool = "none" /\ Returned

\* detect_anti_bots has returned its envelope
DetectAntiBotsReturned == tool = "detect_anti_bots" /\ tpc = "returned"

\* the last transport call was answered 403 or 503
TransportBlocked ==
  /\ Len(outcomes) > 0
  /\ IsResponse(Last(outcomes))
  /\ Last(outcomes).status \in {403, 503}

\* C14: for every signature with at least one pattern hit, detectAntiBotsInHtml
\* returns one detection whose confidence is high if a challenge pattern
\* matched or (evidence count >= 3 and requestBlocked), otherwise medium if
\* evidence count >= 2 or requestBlocked, otherwise low; a signature with no
\* pattern hit produces no detection.
C14_ConfidenceRule ==
  DetectReturned =>
    \A sig \in Signatures :
      LET n == EvidenceCount(sig, gateIn.html)
          isBlocking == ChallengeHits(sig, gateIn.html) > 0
          ds == Named(envelope.detected, sig)
      IN IF n = 0
         THEN ds = {}
         ELSE /\ Cardinality(ds) = 1
              /\ \A i \in ds :
                   /\ Len(envelope.detected[i].evidence) = n
                   /\ envelope.detected[i].confidence =
                        (IF isBlocking \/ (n >= 3 /\ gateIn.requestBlocked) THEN "high"
                         ELSE IF n >= 2 \/ gateIn.requestBlocked THEN "medium"
                         ELSE "low")

\* C14 witness: three presence patterns of Cloudflare and no challenge pattern
\* match; the request was blocked, so the confidence is high.
C14_Witness ==
  /\ DetectReturned
  /\ gateIn.requestBlocked
  /\ gateIn.html = PageOf({"cf-turnstile", "cf-beacon", "cloudflareinsights.com"})
  /\ Len(envelope.detected) = 1
  /\ envelope.detected[1].name = "Cloudflare"
  /\ envelope.detected[1].confidence = "high"
  /\ Len(envelope.detected[1].evidence) = 3

\* C15: a detection of a signature is reported as actively blocking exactly
\* when one of the signature's challenge patterns matched and the request was
\* blocked; when detect_anti_bots' transport call was not blocked, every
\* signature with a hit in the page is still detected and no detection has
\* is_actively_blocking = true.
C15_ActivelyBlockingIffChallengeAndBlocked ==
  /\ DetectReturned =>
       \A sig \in Signatures : \A i \in Named(envelope.detected, sig) :
         envelope.detected[i].is_actively_blocking
           <=> (ChallengeHits(sig, gateIn.html) > 0 /\ gateIn.requestBlocked)
  /\ DetectAntiBotsReturned =>
       /\ \A sig \in Signatures : \A i \in Named(envelope.anti_bots_detected, sig) :
            envelope.anti_bots_detected[i].is_actively_blocking
              <=> (ChallengeHits(sig, analysedText(result)) > 0 /\ TransportBlocked)
       /\ ~TransportBlocked =>
            /\ \A i \in DOMAIN envelope.anti_bots_detected :
                 ~envelope.anti_bots_detected[i].is_actively_blocking
            /\ (result.success /\ ~Last(outcomes).contentTypeJson) =>
                 \A sig \in Signatures :
                   EvidenceCount(sig, Last(outcomes).body) > 0 =>
                     Named(envelope.anti_bots_detected, sig) # {}

\* C15 witness: the proxy answers 200 with a page that holds cf-turnstile;
\* detect_anti_bots reports Cloudflare, not actively blocking.
C15_Witness ==
  /\ DetectAntiBotsReturned
  /\ Last(outcomes) = ResponseOutcome(200, FALSE, PageOf({"cf-turnstile"}))
  /\ Len(envelope.anti_bots_detected) = 1
  /\ envelope.anti_bots_detected[1].name = "Cloudflare"
  /\ envelope.anti_bots_detected[1].is_actively_blocking = FALSE
  /\ envelope.request_status.was_blocked = FALSE

\* C15, second witness: detectAntiBotsInHtml given a challenge page and a
\* blocked request reports the detection as actively blocking.
C15_WitnessBlocking ==
  /\ DetectReturned
  /\ gateIn.requestBlocked
  /\ gateIn.html = PageOf({"__cf_chl_"})
  /\ envelope.detected[1].is_actively_blocking

\* C16 as stated: when the transport status is 403 and the page of the response
\* holds a challenge pattern of a signature, the result of detect_anti_bots
\* contains that signature's detection with confidence high and
\* is_actively_blocking true.
C16_Original ==
  (DetectAntiBotsReturned /\ Len(outcomes) > 0 /\ IsStatus(Last(outcomes), 403)) =>
    \A sig \in Signatures :
      ChallengeHits(sig, Last(outcomes).body) > 0 =>
        \E i \in Named(envelope.anti_bots_detected, sig) :
          /\ envelope.anti_bots_detected[i].confidence = "high"
          /\ envelope.anti_bots_detected[i].is_actively_blocking

\* the detection detect_anti_bots synthesizes for a blocked request
UnknownDetection(status) ==
  [name |-> "Unknown Anti-Bot Protection",
   confidence |-> "medium",
   is_actively_blocking |-> TRUE,
   evidence |-> <<"Request blocked with HTTP " \o ToString(status)>>]

\* C17: if the transport call was blocked (403 or 503) and no signature has a
\* hit in the text detect_anti_bots analysed, it reports exactly one detection,
\* "Unknown Anti-Bot Protection", with confidence medium, is_actively_blocking
\* true and the evidence "Request blocked with HTTP <code>"; that detection is
\* never reported next to a signature's detection nor when the request was not
\* blocked.
C17_UnknownOnlyWhenBlockedAndUnmatched ==
  DetectAntiBotsReturned =>
    LET detected == envelope.anti_bots_detected
        noHit == \A sig \in Signatures : EvidenceCount(sig, analysedText(result)) = 0
    IN /\ (TransportBlocked /\ noHit) =>
            detected = <<UnknownDetection(Last(outcomes).status)>>
       /\ (\E i \in DOMAIN detected : detected[i].name = "Unknown Anti-Bot Protection") =>
            /\ TransportBlocked
            /\ noHit
            /\ Len(detected) = 1
       /\ envelope.total_protections_found = Len(detected)

\* C17 witness: the proxy answers 503; the one detection is the unknown
\* protection with the evidence of the status.
C17_Witness ==
  /\ DetectAntiBotsReturned
  /\ IsStatus(Last(outcomes), 503)
  /\ envelope.anti_bots_detected = <<UnknownDetection(503)>>
  /\ envelope.protection_level = "high"

----------------------------------------------------------------------------
(* check_js_rendering. A page is known by what the helpers that read it    *)
(* find in it; a text built from a template is the sequence of its chunks. *)

NoFeatures ==
  [htmlLength |-> 0, textLength |-> 0, emptyContainers |-> <<>>, noscriptMessages |-> <<>>,
   frameworks |-> {}]

\* what the page with this html holds: the length of the html, the length of
\* stripHtmlTags(html), the results of detectEmptyContainers and
\* detectNoscriptMessages and the frameworks whose patterns match
PageFeatures(html) ==
  CASE html = "page:article" -> [NoFeatures EXCEPT !.htmlLength = 3400, !.textLength = 3000]
    [] html = "page:article-more" -> [NoFeatures EXCEPT !.htmlLength = 3500, !.textLength = 3050]
    [] html = "page:stub" -> [NoFeatures EXCEPT !.htmlLength = 300, !.textLength = 100]
    [] html = "page:react-shell" ->
         [NoFeatures EXCEPT !.htmlLength = 600,
                            !.emptyContainers = <<"Empty #root container (React)">>,
                            !.frameworks = {"React"}]
    [] html = "page:react-thin" ->
         [NoFeatures EXCEPT !.htmlLength = 900, !.textLength = 400, !.frameworks = {"React"}]
    [] html = "page:jquery-thin" ->
         [NoFeatures EXCEPT !.htmlLength = 500, !.textLength = 100, !.frameworks = {"jQuery"}]
    [] html = "page:noscript" ->
         [NoFeatures EXCEPT !.htmlLength = 3600, !.textLength = 3000,
                            !.noscriptMessages = <<"Please enable JavaScript to view this site">>]
    [] html = "page:noscript-long" ->
         [NoFeatures EXCEPT !.htmlLength = 12600, !.textLength = 12000,
                            !.noscriptMessages = <<"Enable JavaScript to see more text content">>]
    [] html = "page:long" -> [NoFeatures EXCEPT !.htmlLength = 12500, !.textLength = 12000]
    [] html = "page:longer" -> [NoFeatures EXCEPT !.htmlLength = 18500, !.textLength = 18000]
    [] html = "page:rendered" ->
         [NoFeatures EXCEPT !.htmlLength = 9800, !.textLength = 9000, !.frameworks = {"React"}]
    [] html = "<html></html>" -> [NoFeatures EXCEPT !.htmlLength = 13]
    [] OTHER -> NoFeatures

RenderPages ==
  {"page:article", "page:article-more", "page:stub", "page:react-shell", "page:react-thin",
   "page:jquery-thin", "page:noscript", "page:noscript-long", "page:long", "page:longer",
   "page:rendered"}

\* stripHtmlTags(html).length
strippedLength(html) == PageFeatures(html).textLength

detectEmptyContainers(html) == PageFeatures(html).emptyContainers

detectNoscriptMessages(html) == PageFeatures(html).noscriptMessages

JS_FRAMEWORK_PATTERNS ==
  << [name |-> "React", renderingRequired |-> TRUE],
     [name |-> "Next.js", renderingRequired |-> TRUE],
     [name |-> "Vue.js", renderingRequired |-> TRUE],
     [name |-> "Nuxt.js", renderingRequired |-> TRUE],
     [name |-> "Angular", renderingRequired |-> TRUE],
     [name |-> "Svelte", renderingRequired |-> TRUE],
     [name |-> "Gatsby", renderingRequired |-> TRUE],
     [name |-> "jQuery", renderingRequired |-> FALSE] >>

detectJSFrameworks(html) ==
  LET matched == SelectSeq(JS_FRAMEWORK_PATTERNS,
                           LAMBDA fw : fw.name \in PageFeatures(html).frameworks)
  IN [i \in DOMAIN matched |->
        [name |-> matched[i].name, rendering_likely_required |-> matched[i].renderingRequired]]

\* Array.from(jsFrameworksByName.values()): the frameworks of the first list,
\* then those of the second list with a new name
mergeFrameworks(noJsFrameworks, renderedFrameworks) ==
  noJsFrameworks
  \o SelectSeq(renderedFrameworks,
               LAMBDA f : \A i \in DOMAIN noJsFrameworks : noJsFrameworks[i].name # f.name)

\* contentRatio, as the fraction jsLength / noJsLength, Infinity or 0
contentRatioOf(noJsLength, jsLength) ==
  IF noJsLength = 0 /\ jsLength > 0 THEN [kind |-> "infinity"]
  ELSE IF jsLength > 0 /\ noJsLength > 0
  THEN [kind |-> "fraction", num |-> jsLength, den |-> noJsLength]
  ELSE [kind |-> "zero"]

\* contentRatio > 1.5
ratioAbove15(ratio) ==
  \/ ratio.kind = "infinity"
  \/ ratio.kind = "fraction" /\ 2 * ratio.num > 3 * ratio.den

\* Number.prototype.toFixed(digits) of a non-negative number, for digits 0, 1
\* and 2
toFixed(ratio, digits) ==
  IF ratio.kind = "infinity" THEN "Infinity"
  ELSE IF ratio.kind = "zero"
  THEN (IF digits = 0 THEN "0" ELSE IF digits = 1 THEN "0.0" ELSE "0.00")
  ELSE LET scale == IF digits = 0 THEN 1 ELSE IF digits = 1 THEN 10 ELSE 100
           scaled == (2 * scale * ratio.num + ratio.den) \div (2 * ratio.den)
           frac == scaled % scale
       IN IF digits = 0 THEN ToString(scaled)
          ELSE ToString(scaled \div scale) \o "."
               \o (IF digits = 2 /\ frac < 10 THEN "0" ELSE "") \o ToString(frac)

\* JSON.stringify(parseFloat(contentRatio.toFixed(2))): the trailing zeros of
\* the two decimals are dropped, and Infinity is written null
roundedRatio(ratio) ==
  IF ratio.kind = "infinity" THEN "null"
  ELSE LET scaled == (200 * ratio.num + ratio.den) \div (2 * ratio.den)
           whole == ToString(scaled \div 100)
           frac == scaled % 100
       IN IF frac = 0 THEN whole
          ELSE IF frac % 10 = 0 THEN whole \o "." \o ToString(frac \div 10)
          ELSE whole \o "." \o (IF frac < 10 THEN "0" ELSE "") \o ToString(frac)

\* the phrases looked for in this model that occur in a chunk of text
PhrasesIn(chunk) ==
  CASE chunk = "x more text content (" -> {"more text content"}
    [] chunk = "Enable JavaScript to see more text content" -> {"more text content"}
    [] OTHER -> {}

\* String.prototype.includes
includes(text, phrase) == \E i \in DOMAIN text : phrase \in PhrasesIn(text[i])

\* one if statement of the rules without effect once needsRendering is true
ruleStep_shortCircuit(st, cond, reason) ==
  IF cond /\ ~st.needsRendering
  THEN [needsRendering |-> TRUE, reasons |-> Append(st.reasons, reason)]
  ELSE st

\* if (cond) { needsRendering = true; reasons.push(reason); }
ruleStep(st, cond, reason) ==
  IF cond
  THEN [needsRendering |-> TRUE, reasons |-> Append(st.reasons, reason)]
  ELSE st

\* the six rules of check_js_rendering, for the results of the two requests
renderingVerdict(noJs, js) ==
  LET noJsHtml == extractHtml(noJs)
      jsHtml == extractHtml(js)
      noJsLength == strippedLength(noJsHtml)
      jsLength == strippedLength(jsHtml)
      emptyContainers == detectEmptyContainers(noJsHtml)
      noscriptMessages == detectNoscriptMessages(noJsHtml)
      jsFrameworks == mergeFrameworks(detectJSFrameworks(noJsHtml), detectJSFrameworks(jsHtml))
      contentRatio == contentRatioOf(noJsLength, jsLength)
      contentDiff == jsLength - noJsLength
      s0 == [needsRendering |-> FALSE, reasons |-> <<>>]
      s1 == ruleStep(s0, ~noJs.success /\ js.success,
                     <<"Non-rendered request failed while rendered request succeeded">>)
      s2 == ruleStep(s1, ratioAbove15(contentRatio) /\ contentDiff > 2000,
                     <<"Rendered version has ", toFixed(contentRatio, 1),
                       "x more text content (", ToString(noJsLength), " → ",
                       ToString(jsLength), " chars)">>)
      s3 == ruleStep(s2, Len(emptyContainers) > 0,
                     <<"Empty SPA mount points found: ", Join(emptyContainers)>>)
      s4 == ruleStep(s3, Len(noscriptMessages) > 0,
                     <<"<noscript> messages found: \"", noscriptMessages[1], "\"">>)
      s5 == ruleStep(s4, /\ noJsLength < 500
                         /\ \E i \in DOMAIN jsFrameworks :
                              jsFrameworks[i].rendering_likely_required,
                     <<"Very thin non-rendered content (", ToString(noJsLength),
                       " chars) with JS framework detected">>)
  IN ruleStep(s5, /\ contentDiff > 5000
                  /\ ~\E i \in DOMAIN s5.reasons : includes(s5.reasons[i], "more text content"),
              <<ToString(contentDiff),
                " characters of additional text content appear only in the rendered version">>)

\* result.statusCode || (result.success ? 200 : undefined), as a one-key object
statusCodeField(r) ==
  IF "statusCode" \in DOMAIN r THEN [status_code |-> r.statusCode] ELSE EmptyObj

\* what check_js_rendering returns for the results of its two requests
checkJsRenderingEnvelope(a, noJs, js) ==
  IF ~noJs.success /\ ~js.success
  THEN [success |-> FALSE,
        url |-> Get(a, "url").s,
        error |-> "Both requests failed. The website may be blocking all requests.",
        without_js_error |-> noJs.error,
        with_js_error |-> js.error,
        recommendation |->
          "Try using bypass_level and residential options with the maps_web tool."]
  ELSE LET noJsHtml == extractHtml(noJs)
           jsHtml == extractHtml(js)
           verdict == renderingVerdict(noJs, js)
           contentRatio == contentRatioOf(strippedLength(noJsHtml), strippedLength(jsHtml))
           jsFrameworks ==
             mergeFrameworks(detectJSFrameworks(noJsHtml), detectJSFrameworks(jsHtml))
       IN [success |-> TRUE,
           url |-> Get(a, "url").s,
           needs_rendering |-> verdict.needsRendering,
           comparison |->
             [without_js |->
                [request_success |-> noJs.success,
                 html_length |-> PageFeatures(noJsHtml).htmlLength,
                 text_content_length |-> strippedLength(noJsHtml)] @@ statusCodeField(noJs),
              with_js |->
                [request_success |-> js.success,
                 html_length |-> PageFeatures(jsHtml).htmlLength,
                 text_content_length |-> strippedLength(jsHtml)] @@ statusCodeField(js),
              content_length_ratio |->
                IF contentRatio.kind = "zero" THEN "null" ELSE roundedRatio(contentRatio),
              additional_text_from_rendering |->
                strippedLength(jsHtml) - strippedLength(noJsHtml)],
           reasons |-> verdict.reasons]
          @@ (IF Len(detectEmptyContainers(noJsHtml)) > 0
              THEN [empty_spa_containers |-> detectEmptyContainers(noJsHtml)] ELSE EmptyObj)
          @@ (IF Len(detectNoscriptMessages(noJsHtml)) > 0
              THEN [noscript_messages |-> detectNoscriptMessages(noJsHtml)] ELSE EmptyObj)
          @@ (IF Len(jsFrameworks) > 0
              THEN [js_frameworks_detected |-> jsFrameworks] ELSE EmptyObj)

\* check_js_rendering.execute up to its first await
ExecuteCheckJsRendering(a, session) ==
  /\ tpc = "idle"
  /\ tool' = "check_js_rendering"
  /\ args' = a
  /\ IF getApiKey(session) = ""
     THEN /\ tpc' = "thrown"
          /\ envelope' = [thrown |-> "API key is required. Set SCRAPEOPS_API_KEY environment variable."]
          /\ UNCHANGED reqVars
     ELSE /\ tpc' = "awaiting_nojs"
          /\ EnterMakeRequest(getApiKey(session), removeEmptyValues([url |-> Get(a, "url")]))
          /\ UNCHANGED envelope
  /\ UNCHANGED <<env, requestParams, usedOptions, validation, gateIn, analyzer, parked, noJsResult>>

\* the second request made only when the first one succeeded
FetchWithRendering_stopsOnFailure ==
  /\ tool = "check_js_rendering"
  /\ tpc = "awaiting_nojs"
  /\ pc = "resolved"
  /\ noJsResult' = result
  /\ IF result.success
     THEN /\ tpc' = "awaiting_js"
          /\ EnterMakeRequest(apiKey, removeEmptyValues([url |-> Get(args, "url"),
                                                         render_js |-> Bool(TRUE)]))
          /\ UNCHANGED envelope
     ELSE /\ tpc' = "returned"
          /\ envelope' = checkJsRenderingEnvelope(args, result, result)
          /\ UNCHANGED reqVars
  /\ UNCHANGED <<env, tool, args, requestParams, usedOptions, validation, gateIn, analyzer, parked>>

\* the first request is resolved: the request with render_js is made
FetchWithRendering ==
  /\ tool = "check_js_rendering"
  /\ tpc = "awaiting_nojs"
  /\ pc = "resolved"
  /\ noJsResult' = result
  /\ tpc' = "awaiting_js"
  /\ EnterMakeRequest(apiKey, removeEmptyValues([url |-> Get(args, "url"),
                                                 render_js |-> Bool(TRUE)]))
  /\ UNCHANGED <<env, tool, args, requestParams, usedOptions, validation, envelope, gateIn, analyzer, parked>>

\* the second request is resolved: the comparison and the return
ResumeCheckJsRendering ==
  /\ tool = "check_js_rendering"
  /\ tpc = "awaiting_js"
  /\ pc = "resolved"
  /\ envelope' = checkJsRenderingEnvelope(args, noJsResult, result)
  /\ tpc' = "returned"
  /\ UNCHANGED <<env, tool, args, requestParams, usedOptions, validation, reqVars, gateIn, analyzer, parked,
                 noJsResult>>

NextRendering ==
  \/ \E session \in Sessions : ExecuteCheckJsRendering([url |-> Str(Url)], session)
  \/ IssueFetch
  \/ ExitLoop
  \/ FetchThrows
  \/ \E status \in NotOkStatuses : ResponseNotOk(status)
  \/ \E body \in RenderPages : ResponseOk(200, FALSE, body)
  \/ ResponseOk(200, TRUE, "json")
  \/ Backoff500Done
  \/ BackoffNetworkDone
  \/ FetchWithRendering
  \/ ResumeCheckJsRendering

SpecRendering == InitTool /\ [][NextRendering]_vars

----------------------------------------------------------------------------
(* Properties of check_js_rendering, under SpecRendering.                  *)

\* check_js_rendering has returned the envelope of its comparison
ComparisonReturned ==
  tool = "check_js_rendering" /\ tpc = "returned" /\ envelope.success

NoJsLength == PageFeatures(extractHtml(noJsResult)).textLength
JsLength == PageFeatures(extractHtml(result)).textLength
ContentDiff == JsLength - NoJsLength

\* the rules, as the comparison states them
RequestRuleFires == ~noJsResult.success /\ result.success

RatioRuleFires ==
  /\ \/ NoJsLength = 0 /\ JsLength > 0
     \/ NoJsLength > 0 /\ JsLength > 0 /\ 2 * JsLength > 3 * NoJsLength
  /\ ContentDiff > 2000

ContainerRuleFires == PageFeatures(extractHtml(noJsResult)).emptyContainers # <<>>

NoscriptRuleFires == PageFeatures(extractHtml(noJsResult)).noscriptMessages # <<>>

ThinRuleFires ==
  /\ NoJsLength < 500
  /\ \E name \in PageFeatures(extractHtml(noJsResult)).frameworks
                   \cup PageFeatures(extractHtml(result)).frameworks : name # "jQuery"

DiffRuleFires == ContentDiff > 5000 /\ ~RatioRuleFires

\* the reasons of the envelope that start with the chunk head, or have it as
\* their chunk at position at
ReasonsWith(at, chunk) ==
  {i \in DOMAIN envelope.reasons :
     Len(envelope.reasons[i]) >= at /\ envelope.reasons[i][at] = chunk}

RequestReasons == ReasonsWith(1, "Non-rendered request failed while rendered request succeeded")
RatioReasons == ReasonsWith(3, "x more text content (")
ContainerReasons == ReasonsWith(1, "Empty SPA mount points found: ")
NoscriptReasons == ReasonsWith(1, "<noscript> messages found: \"")
ThinReasons == ReasonsWith(1, "Very thin non-rendered content (")
DiffReasons ==
  ReasonsWith(2, " characters of additional text content appear only in the rendered version")

\* C18: every rule of check_js_rendering is evaluated, whatever the rules before
\* it decided: each of the first five rules that triggers adds its sentence,
\* once, and only then; needs_rendering is true exactly when the reasons list
\* is non-empty, and exactly when one of the six rules triggers.
C18_VerdictIsOrOfRules ==
  ComparisonReturned =>
    /\ Cardinality(RequestReasons) = (IF RequestRuleFires THEN 1 ELSE 0)
    /\ Cardinality(RatioReasons) = (IF RatioRuleFires THEN 1 ELSE 0)
    /\ Cardinality(ContainerReasons) = (IF ContainerRuleFires THEN 1 ELSE 0)
    /\ Cardinality(NoscriptReasons) = (IF NoscriptRuleFires THEN 1 ELSE 0)
    /\ Cardinality(ThinReasons) = (IF ThinRuleFires THEN 1 ELSE 0)
    /\ envelope.needs_rendering <=> Len(envelope.reasons) > 0
    /\ envelope.needs_rendering <=>
         \/ RequestRuleFires
         \/ RatioRuleFires
         \/ ContainerRuleFires
         \/ NoscriptRuleFires
         \/ ThinRuleFires
         \/ DiffRuleFires

\* C18 witness: 3000 characters without rendering, 3050 with, no empty
\* container, no noscript message, no framework: no rule triggers and
\* needs_rendering is false.
C18_Witness ==
  /\ ComparisonReturned
  /\ NoJsLength = 3000
  /\ JsLength = 3050
  /\ noJsResult.data.s = "page:article"
  /\ result.data.s = "page:article-more"
  /\ envelope.needs_rendering = FALSE
  /\ envelope.reasons = <<>>

\* C18, second witness: three rules trigger on an empty React shell that
\* renders to 9000 characters, and the three sentences are reported in order.
C18_WitnessThreeRules ==
  /\ ComparisonReturned
  /\ noJsResult.success /\ noJsResult.data.s = "page:react-shell"
  /\ result.success /\ result.data.s = "page:rendered"
  /\ envelope.needs_rendering
  /\ Len(envelope.reasons) = 3
  /\ RatioReasons = {1}
  /\ ContainerReasons = {2}
  /\ ThinReasons = {3}

\* C19 as stated: the content difference is reported once: when ratio > 1.5
\* and diff > 2000 the ratio sentence appears exactly once and the diff > 5000
\* sentence is not added; the diff > 5000 sentence is added exactly when
\* diff > 5000 and the ratio rule did not fire.
C19_Original ==
  ComparisonReturned =>
    /\ RatioRuleFires => (Cardinality(RatioReasons) = 1 /\ DiffReasons = {})
    /\ DiffReasons # {} <=> (ContentDiff > 5000 /\ ~RatioRuleFires)

----------------------------------------------------------------------------
(* buildSelectorAssessment on its own. A number with a fractional part is  *)
(* the fraction num / den, as for contentRatio; a text built from a        *)
(* template is the sequence of its chunks, and the long dash of the        *)
(* source's texts is written as a hyphen.                                  *)

Null == [kind |-> "null"]
Zero == [kind |-> "zero"]
Fraction(num, den) == [kind |-> "fraction", num |-> num, den |-> den]

\* number * 100
timesHundred(number) ==
  IF number.kind = "fraction" THEN Fraction(100 * number.num, number.den) ELSE number

\* ' (stability score: N%)' of the stable and dynamic templates
scoreText(stabilityScore) ==
  IF stabilityScore # Null
  THEN " (stability score: " \o toFixed(timesHundred(stabilityScore), 0) \o "%)"
  ELSE ""

stableAssessment(stabilityScore) ==
  [summary |->
     <<"CSS selectors are stable", scoreText(stabilityScore),
       ". Class names and IDs are consistent across page loads - safe to use for scraping.">>,
   strategy |->
     [approach |-> "Standard CSS selectors - class names and IDs are reliable",
      use |-> <<"CSS class selectors (e.g., .product-title, .price)",
                "ID selectors (e.g., #product-name)",
                "Data attributes (e.g., [data-product-id])",
                "Combined selectors for precision (e.g., .product-card .title)">>,
      avoid |-> <<"Overly long selector chains that break on minor DOM changes",
                  "Position-based selectors like :nth-child() unless necessary">>],
   recommendations |->
     <<"CSS selectors are stable - you can reliably use class names and IDs.",
       "Prefer semantic class names over structural selectors for maintainability.",
       "Use data-* attributes when available - they are typically the most stable.",
       "Test selectors periodically, as stability can change with site updates.">>]

\* the obfuscated template without the average entropy
obfuscatedAssessment_noEntropy(randomRatio, avgEntropy) ==
  [summary |->
     <<"CSS selectors are obfuscated", "", ".",
       IF randomRatio # Null
       THEN " " \o toFixed(timesHundred(randomRatio), 0) \o "% of selectors appear random."
       ELSE "",
       " Class names appear auto-generated with high randomness (e.g., hash-based names from CSS-in-JS, styled-components, or Tailwind JIT). Do NOT rely on class names.">>,
   strategy |->
     [approach |-> "Avoid class-based selectors entirely - use structural and attribute-based targeting",
      use |-> <<"Semantic HTML tags (e.g., h1, h2, article, main, nav, section)",
                "Data attributes (e.g., [data-testid], [data-product-id])",
                "ARIA attributes (e.g., [role=\"heading\"], [aria-label])",
                "Tag + attribute combinations (e.g., input[name=\"price\"])",
                "XPath for complex structural targeting",
                "JSON-LD or embedded JSON as an alternative to HTML parsing">>,
      avoid |-> <<"CSS class selectors - they change on every build/deploy",
                  "ID selectors unless they are clearly semantic (not hashed)",
                  "Any selector containing random strings or hash-like patterns">>],
   recommendations |->
     <<"Class names are obfuscated - do NOT use them in scraping selectors.",
       "Use semantic HTML elements (h1, article, main) and data-* attributes instead.",
       "Check for JSON-LD or embedded JSON data - often more reliable than parsing obfuscated HTML.",
       "Use the identify_data_sources tool to check if data is available via API/XHR calls (avoids HTML parsing entirely).",
       "Consider using XPath expressions with text content matching for last-resort targeting.",
       "If using render_js, use the extract_data tool with LLM mode - it can handle obfuscated selectors.">>]

obfuscatedAssessment(randomRatio, avgEntropy) ==
  [summary |->
     <<"CSS selectors are obfuscated",
       IF avgEntropy # Null THEN " (avg entropy: " \o toFixed(avgEntropy, 2) \o ")" ELSE "",
       ".",
       IF randomRatio # Null
       THEN " " \o toFixed(timesHundred(randomRatio), 0) \o "% of selectors appear random."
       ELSE "",
       " Class names appear auto-generated with high randomness (e.g., hash-based names from CSS-in-JS, styled-components, or Tailwind JIT). Do NOT rely on class names.">>,
   strategy |->
     [approach |-> "Avoid class-based selectors entirely - use structural and attribute-based targeting",
      use |-> <<"Semantic HTML tags (e.g., h1, h2, article, main, nav, section)",
                "Data attributes (e.g., [data-testid], [data-product-id])",
                "ARIA attributes (e.g., [role=\"heading\"], [aria-label])",
                "Tag + attribute combinations (e.g., input[name=\"price\"])",
                "XPath for complex structural targeting",
                "JSON-LD or embedded JSON as an alternative to HTML parsing">>,
      avoid |-> <<"CSS class selectors - they change on every build/deploy",
                  "ID selectors unless they are clearly semantic (not hashed)",
                  "Any selector containing random strings or hash-like patterns">>],
   recommendations |->
     <<"Class names are obfuscated - do NOT use them in scraping selectors.",
       "Use semantic HTML elements (h1, article, main) and data-* attributes instead.",
       "Check for JSON-LD or embedded JSON data - often more reliable than parsing obfuscated HTML.",
       "Use the identify_data_sources tool to check if data is available via API/XHR calls (avoids HTML parsing entirely).",
       "Consider using XPath expressions with text content matching for last-resort targeting.",
       "If using render_js, use the extract_data tool with LLM mode - it can handle obfuscated selectors.">>]

dynamicAssessment(data, stabilityScore) ==
  LET changingCount == Get(Get(data, "selector_comparison"), "changing_selectors")
  IN [summary |->
        <<"CSS selectors are partially dynamic", scoreText(stabilityScore), ".",
          IF changingCount.t = "number"
          THEN " " \o ToJsString(changingCount) \o " selectors change between loads."
          ELSE "",
          " Some selectors change between page loads (likely CSS Modules or build-time generated suffixes), but many remain consistent.">>,
      strategy |->
        [approach |-> "Mixed strategy - use stable selectors where possible, avoid dynamic ones",
         use |-> <<"ID selectors (usually more stable than classes)",
                   "Data attributes (e.g., [data-testid], [data-id])",
                   "Stable class names (semantic names without hash suffixes)",
                   "Attribute selectors with partial matching (e.g., [class*=\"product\"])",
                   "Tag-based selectors for structural navigation">>,
         avoid |-> <<"Class names with hash suffixes (e.g., .product-card_a3x7f)",
                     "Classes that contain random alphanumeric sequences",
                     "Full class name matching - use partial/contains matching if needed">>],
      recommendations |->
        <<"Some selectors are dynamic - look for patterns with stable base names and changing hash suffixes.",
          "Use partial class matching (e.g., [class*=\"product\"]) to match the stable prefix while ignoring the dynamic suffix.",
          "Prefer data-* attributes and IDs over class names.",
          "Check for JSON-LD or embedded JSON as a more stable data source.",
          "Monitor for selector changes - dynamic selectors may shift on each deployment.">>]

\* Unknown / insufficient data
insufficientAssessment(data) ==
  [summary |->
     <<"Unable to determine CSS selector stability - insufficient data (",
       ToJsString(Get(data, "successful_requests")), "/",
       ToJsString(Get(data, "total_requests")), " requests succeeded).">>,
   strategy |->
     [approach |-> "Conservative - assume selectors may be unstable",
      use |-> <<"Semantic HTML tags (h1, h2, article, main)",
                "Data attributes",
                "ID selectors",
                "JSON-LD or embedded JSON data">>,
      avoid |-> <<"Class-based selectors until stability is confirmed",
                  "Complex selector chains">>],
   recommendations |->
     <<"The analysis could not complete - the page may be blocking automated requests.",
       "Try running analyze_scraping_difficulty to check for anti-bot protections.",
       "Consider using detect_anti_bots to identify specific protection systems.",
       "If the page is accessible via browser, try with render_js: true.">>]

buildSelectorAssessment(data, stabilityScore, randomRatio, avgEntropy) ==
  LET stability == Get(data, "css_selector_stability")
  IN IF stability = Str("stable") THEN stableAssessment(stabilityScore)
     ELSE IF stability = Str("obfuscated") THEN obfuscatedAssessment(randomRatio, avgEntropy)
     ELSE IF stability = Str("dynamic") THEN dynamicAssessment(data, stabilityScore)
     ELSE insufficientAssessment(data)

\* the classifications the analyzer may send, and what a caller may put in
\* their place
Labels ==
  {Str("stable"), Str("dynamic"), Str("obfuscated"), Str("unknown"), Str("error"),
   Str("Stable"), Str(""), Undefined}

Scores == {Null, Zero, Fraction(7, 8), Fraction(1, 1)}

Entropies == {Null, Zero, Fraction(21, 5), Fraction(532, 125), Fraction(3, 1)}

SelectorData ==
  {[css_selector_stability |-> label, successful_requests |-> Num(succeeded),
    total_requests |-> Num(3)] @@ comparison :
     label \in Labels, succeeded \in {0, 3},
     comparison \in {EmptyObj,
                     [selector_comparison |-> EmptyObj],
                     [selector_comparison |-> [changing_selectors |-> Num(4)]]}}
    \cup {EmptyObj}

InitSelectors ==
  \E data \in SelectorData, stabilityScore \in Scores, randomRatio \in Scores,
     avgEntropy \in Entropies :
    AppliedAlone([data |-> data, stabilityScore |-> stabilityScore,
                  randomRatio |-> randomRatio, avgEntropy |-> avgEntropy])

ApplyBuildSelectorAssessment ==
  Return(buildSelectorAssessment(gateIn.data, gateIn.stabilityScore,
                                 gateIn.randomRatio, gateIn.avgEntropy))

NextSelectors == ApplyBuildSelectorAssessment

SpecSelectors == InitSelectors /\ [][NextSelectors]_vars

----------------------------------------------------------------------------
(* Properties of buildSelectorAssessment, under SpecSelectors.             *)

Label == Get(gateIn.data, "css_selector_stability")

\* the average entropy written with two decimals
TwoDecimals(avgEntropy) ==
  CASE avgEntropy = Zero -> "0.00"
    [] avgEntropy = Fraction(21, 5) -> "4.20"
    [] avgEntropy = Fraction(532, 125) -> "4.26"
    [] avgEntropy = Fraction(3, 1) -> "3.00"

\* the entries of a use list that recommend selecting by class
ClassSelectorRecommendations ==
  {"CSS class selectors (e.g., .product-title, .price)",
   "Combined selectors for precision (e.g., .product-card .title)",
   "Stable class names (semantic names without hash suffixes)",
   "Attribute selectors with partial matching (e.g., [class*=\"product\"])"}

Items(list) == {list[i] : i \in DOMAIN list}

\* C20: buildSelectorAssessment is a total lookup on the label: stable, dynamic
\* and obfuscated select their own template, and every other label and a
\* missing one select the conservative insufficient-data template, which
\* recommends semantic tags and a new run with render_js; for obfuscated the
\* summary contains the average entropy with two decimals when it is supplied,
\* and the use list of the strategy recommends no class selector.
C20_TotalLookupOnLabel ==
  Returned =>
    /\ Label = Str("stable") <=>
         envelope.strategy.approach = "Standard CSS selectors - class names and IDs are reliable"
    /\ Label = Str("dynamic") <=>
         envelope.strategy.approach
           = "Mixed strategy - use stable selectors where possible, avoid dynamic ones"
    /\ Label = Str("obfuscated") <=>
         envelope.strategy.approach
           = "Avoid class-based selectors entirely - use structural and attribute-based targeting"
    /\ Label \notin {Str("stable"), Str("dynamic"), Str("obfuscated")} <=>
         /\ envelope.strategy.approach = "Conservative - assume selectors may be unstable"
         /\ envelope.summary[1]
              = "Unable to determine CSS selector stability - insufficient data ("
         /\ "Semantic HTML tags (h1, h2, article, main)" \in Items(envelope.strategy.use)
         /\ "If the page is accessible via browser, try with render_js: true."
              \in Items(envelope.recommendations)
    /\ Label = Str("obfuscated") =>
         /\ envelope.summary[1] = "CSS selectors are obfuscated"
         /\ gateIn.avgEntropy # Null =>
              " (avg entropy: " \o TwoDecimals(gateIn.avgEntropy) \o ")"
                \in Items(envelope.summary)
         /\ Items(envelope.strategy.use) \cap ClassSelectorRecommendations = {}

\* C20 witness: label obfuscated with an average entropy of 4.2: the summary
\* carries ' (avg entropy: 4.20)'.
C20_Witness ==
  /\ Returned
  /\ Label = Str("obfuscated")
  /\ gateIn.avgEntropy = Fraction(21, 5)
  /\ envelope.summary[2] = " (avg entropy: 4.20)"
  /\ Items(envelope.strategy.use) \cap ClassSelectorRecommendations = {}

\* C20, second witness: a missing label selects the insufficient-data template.
C20_WitnessMissingLabel ==
  /\ Returned
  /\ gateIn.data = EmptyObj
  /\ envelope.strategy.approach = "Conservative - assume selectors may be unstable"
  /\ envelope.summary[2] = "undefined"

----------------------------------------------------------------------------
(* Further properties of makeRequest, under Spec and SpecLive.             *)

\* C28 as stated: for every maxAttempts >= 1 the retriesAttempted of the result
\* is the number of transport calls executed minus one.
C28_Original ==
  (Resolved /\ JsLess(Num(0), RETRY_CONFIG.maxAttempts)) =>
    result.retriesAttempted = Len(fetches) - 1

\* C29 as stated: a network_error result is returned only after at least one
\* transport call was executed and an exception was thrown, whatever
\* maxAttempts is.
C29_Original ==
  (Resolved /\ ~result.success /\ result.errorType = "network_error") =>
    /\ Len(fetches) >= 1
    /\ \E i \in DOMAIN outcomes : RaisedException(outcomes[i])

\* C30: a makeRequest that was called always ends in a terminal result,
\* whatever maxAttempts is and whatever the transport answers, as long as every
\* transport call and every backoff sleep completes; attempt is never reset or
\* decreased, and every retry (the end of a backoff sleep) increases it by one.
C30_AlwaysTerminates ==
  /\ (pc = "loop") ~> (pc = "resolved" /\ result # NoResult)
  /\ [][/\ pc # "idle" => attempt' >= attempt
        /\ (pc \in {"sleep_500", "sleep_network"} /\ pc' = "loop") => attempt' = attempt + 1]_vars

\* C30 witness: with maxAttempts = 3 a makeRequest ends after two retries of a
\* 500 and a third transport call.
C30_Witness ==
  /\ Resolved
  /\ RETRY_CONFIG.maxAttempts = Num(3)
  /\ attempt = 2
  /\ Len(fetches) = 3
  /\ Len(sleeps) = 2
  /\ result # NoResult

----------------------------------------------------------------------------
(* Properties of parameter validation, under SpecTool.                     *)

\* execute has gone past getApiKey, the option blocks and validateParams
Validated == tool \in ProxyTools /\ tpc \in {"awaiting", "returned"}

\* the arguments of the call carry a session_number outside 1..10000
SessionOutOfRange ==
  /\ Get(args, "session_number") # Undefined
  /\ \/ JsLess(Get(args, "session_number"), Num(1))
     \/ JsLess(Num(10000), Get(args, "session_number"))

\* the arguments carry max_request_cost without optimize_request
CostWithoutOptimize ==
  IsTruthy(Get(args, "max_request_cost")) /\ ~IsTruthy(Get(args, "optimize_request"))

\* the arguments set render_js to false and name an option that needs rendering
RenderConflict(option) ==
  Get(args, "render_js") = Bool(FALSE) /\ IsTruthy(Get(args, option))

\* the tool returned the envelope of a failed validation
RejectedAsInvalid ==
  /\ tpc = "returned"
  /\ "validation_errors" \in DOMAIN envelope
  /\ envelope.success = FALSE
  /\ envelope.error = "Invalid parameter combination"

\* C25 as stated: when the parameters of a call fail validation
\* (session_number outside 1..10000, max_request_cost without
\* optimize_request, or a render_js conflict), maps_web, extract_data and
\* return_links return the 'Invalid parameter combination' envelope and make no
\* transport call.
C25_Original ==
  (/\ Validated
   /\ \/ SessionOutOfRange
      \/ CostWithoutOptimize
      \/ \E option \in {"wait_for", "scroll", "screenshot"} : RenderConflict(option)) =>
    /\ RejectedAsInvalid
    /\ fetches = <<>>

\* C26 as stated: a maps_web or extract_data call with render_js: false and
\* wait_for (for maps_web also scroll or screenshot) is rejected with the
\* 'Conflict: ... requires JavaScript rendering' error of that option, and no
\* proxy request with render_js is sent.
C26_Original ==
  \A option \in {"wait_for", "scroll", "screenshot"} :
    (/\ Validated
     /\ tool \in {"maps_web", "extract_data"}
     /\ tool = "extract_data" => option = "wait_for"
     /\ RenderConflict(option)) =>
      /\ RejectedAsInvalid
      /\ \E i \in DOMAIN envelope.validation_errors :
           envelope.validation_errors[i]
             = "Conflict: '" \o option \o "' requires JavaScript rendering, but 'render_js' is explicitly set to false. Remove 'render_js: false' or remove '" \o option \o "'."
      /\ \A i \in DOMAIN fetches : "render_js" \notin DOMAIN fetches[i]

----------------------------------------------------------------------------
(* Properties of the option blocks, under SpecOptions.                     *)

\* the query parameter that carries advanced parameter k
QueryKey(k) == IF k = "bypass_level" THEN "bypass" ELSE k

\* the tool returned the envelope of a failed proxy request
FailureReturned ==
  /\ tool \in ProxyTools
  /\ tpc = "returned"
  /\ pc = "resolved"
  /\ ~result.success

ClassifiedBasic == "marker" \in DOMAIN envelope.options_used

\* C22: in maps_web, extract_data and return_links each of the six advanced
\* parameters is in usedOptions exactly when it is in the query of every proxy
\* request of the call (bypass_level as bypass), with the same value and never
\* false; a failed request is classified basic by the gate exactly when its
\* query carried none of them.
C22_UsedOptionsAreTheRequest ==
  tool \in ProxyTools =>
    /\ \A i \in DOMAIN fetches, k \in AdvancedNames :
         /\ k \in DOMAIN usedOptions <=> QueryKey(k) \in DOMAIN fetches[i]
         /\ k \in DOMAIN usedOptions =>
              /\ usedOptions[k] # Bool(FALSE)
              /\ fetches[i][QueryKey(k)] = ToJsString(usedOptions[k])
    /\ (FailureReturned /\ fetches # <<>>) =>
         /\ ClassifiedBasic <=>
              \A i \in DOMAIN fetches, k \in AdvancedNames : QueryKey(k) \notin DOMAIN fetches[i]
         /\ ~ClassifiedBasic => envelope.options_used = usedOptions

\* C22 witness: maps_web with bypass_level and wait_for fails with a 403: the
\* request carried bypass and render_js, usedOptions holds bypass_level and
\* render_js, and the gate reports them as tried.
C22_Witness ==
  /\ FailureReturned
  /\ tool = "maps_web"
  /\ DOMAIN args = {"url", "bypass_level", "wait_for"}
  /\ Len(fetches) = 1
  /\ fetches[1].bypass = "generic_level_2"
  /\ fetches[1].render_js = "true"
  /\ usedOptions.bypass_level = Str("generic_level_2")
  /\ usedOptions.render_js = Bool(TRUE)
  /\ result.statusCode = 403
  /\ envelope.diagnostic.tried_options = <<"render_js", "bypass_level">>

\* the options of maps_web and extract_data that switch render_js on
RenderingOptions == {"wait_for", "scroll", "screenshot"}

\* the failure is of a kind for which advanced options are suggested
SuggestionKind == result.errorType \in {"forbidden", "rate_limited", "server_error"}

\* C27 as stated: if the arguments of a maps_web or extract_data call contain
\* none of the six advanced parameter names, the failed request is classified
\* basic: options_used is the 'none' marker and, for forbidden, rate_limited
\* and server_error, a permission_request is attached and no diagnostic.
C27_Original ==
  (/\ FailureReturned
   /\ tool \in {"maps_web", "extract_data"}
   /\ DOMAIN args \cap AdvancedNames = {}) =>
    /\ ClassifiedBasic
    /\ SuggestionKind => (HasPermissionRequest(envelope) /\ ~HasDiagnostic(envelope))

\* C27, amended: if the arguments of a maps_web or extract_data call contain
\* none of the six advanced parameter names and none of wait_for, scroll and
\* screenshot (each of which switches render_js on), the failed request is
\* classified basic: options_used is the 'none' marker and, for forbidden,
\* rate_limited and server_error, a permission_request is attached and no
\* diagnostic.
C27_BasicWhenNothingAdvancedApplied ==
  (/\ FailureReturned
   /\ tool \in {"maps_web", "extract_data"}
   /\ DOMAIN args \cap (AdvancedNames \cup RenderingOptions) = {}) =>
    /\ ClassifiedBasic
    /\ envelope.options_used.marker = BasicMarker
    /\ SuggestionKind => (HasPermissionRequest(envelope) /\ ~HasDiagnostic(envelope))

\* C27 witness: maps_web with country and wait only is answered 403 and the
\* envelope asks for permission to use residential and bypass_level.
C27_Witness ==
  /\ FailureReturned
  /\ tool = "maps_web"
  /\ DOMAIN args = {"url", "country", "wait"}
  /\ result.errorType = "forbidden"
  /\ envelope.options_used.marker = BasicMarker
  /\ HasPermissionRequest(envelope)
  /\ DOMAIN envelope.permission_request.suggested_options = {"residential", "bypass_level"}
  /\ ~HasDiagnostic(envelope)

----------------------------------------------------------------------------
(* The two requests of check_js_rendering, under SpecRendering.            *)

Rendered(query) == "render_js" \in DOMAIN query

\* C24: check_js_rendering makes the request without rendering first and the
\* request with render_js second, whatever the first one returned; it returns
\* a needs_rendering verdict exactly when at least one of the two succeeded,
\* and a success = false envelope without a verdict when both failed.
C24_TwoRequestsInOrder ==
  tool = "check_js_rendering" =>
    /\ \A i, j \in DOMAIN fetches : (i < j /\ Rendered(fetches[i])) => Rendered(fetches[j])
    /\ tpc = "awaiting_nojs" => \A i \in DOMAIN fetches : ~Rendered(fetches[i])
    /\ tpc = "awaiting_js" => noJsResult # NoResult
    /\ tpc = "returned" =>
         /\ noJsResult # NoResult
         /\ result # NoResult
         /\ \E i \in DOMAIN fetches : ~Rendered(fetches[i])
         /\ \E i \in DOMAIN fetches : Rendered(fetches[i]) /\ fetches[i].render_js = "true"
         /\ "needs_rendering" \in DOMAIN envelope <=> (noJsResult.success \/ result.success)
         /\ envelope.success <=> (noJsResult.success \/ result.success)
         /\ (~noJsResult.success /\ ~result.success) =>
              /\ envelope.error = "Both requests failed. The website may be blocking all requests."
              /\ envelope.without_js_error = noJsResult.error
              /\ envelope.with_js_error = result.error

\* C24 witness: the request without rendering is answered 403, the request
\* with render_js is made all the same and succeeds, and a verdict is returned.
C24_Witness ==
  /\ tool = "check_js_rendering"
  /\ tpc = "returned"
  /\ ~noJsResult.success
  /\ noJsResult.statusCode = 403
  /\ result.success
  /\ Len(fetches) = 2
  /\ ~Rendered(fetches[1])
  /\ Rendered(fetches[2])
  /\ envelope.needs_rendering

\* C24, second witness: both requests fail and no verdict is returned.
C24_WitnessBothFailed ==
  /\ tool = "check_js_rendering"
  /\ tpc = "returned"
  /\ ~noJsResult.success
  /\ ~result.success
  /\ \E i \in DOMAIN fetches : Rendered(fetches[i])
  /\ ~envelope.success
  /\ "needs_rendering" \notin DOMAIN envelope

----------------------------------------------------------------------------
(* fetchWithTimeout and the tools that call the parser service through it: *)
(* analyze_scraping_difficulty (by callWebAnalyzer) and                    *)
(* check_css_selectors. The body of a response is known by its name.       *)

PARSER_FETCH_TIMEOUT_MS == 120000

\* clearTimeout with the call left out
clearTimeout_forgotten(timer) == timer

\* clearTimeout(timeoutId): a timer that has fired already is left as it is
clearTimeout(timer) == IF timer = "armed" THEN "cleared" ELSE timer

\* fetchWithTimeout up to its await: the controller, setTimeout and fetch
startFetchWithTimeout(label) ==
  [pc |-> "pending", timer |-> "armed", aborted |-> FALSE, label |-> label,
   timeoutMs |-> PARSER_FETCH_TIMEOUT_MS, outcome |-> NoCall]

\* the callback of setTimeout: controller.abort()
TimerExpires ==
  /\ analyzer.timer = "armed"
  /\ analyzer' = [analyzer EXCEPT !.timer = "fired", !.aborted = TRUE]
  /\ UNCHANGED <<env, toolVars, reqVars, gateIn, parked>>

\* fetch rejects with an AbortError because the signal was aborted: the catch
\* block throws the timeout error
FetchAborted ==
  /\ analyzer.pc = "pending"
  /\ analyzer.aborted
  /\ analyzer' = [analyzer EXCEPT
                    !.timer = clearTimeout(analyzer.timer),
                    !.pc = "thrown",
                    !.outcome = [kind |-> "throw",
                                 message |-> analyzer.label \o " timed out after "
                                               \o ToString(analyzer.timeoutMs) \o "ms"]]
  /\ UNCHANGED <<env, toolVars, reqVars, gateIn, parked>>

\* fetch resolves with a response: clearTimeout and return
AnalyzerResponds(status, body) ==
  /\ analyzer.pc = "pending"
  /\ ~analyzer.aborted
  /\ analyzer' = [analyzer EXCEPT
                    !.timer = clearTimeout(analyzer.timer),
                    !.pc = "returned",
                    !.outcome = ResponseOutcome(status, TRUE, body)]
  /\ UNCHANGED <<env, toolVars, reqVars, gateIn, parked>>

\* fetch rejects with an error that is no AbortError: clearTimeout and rethrow
AnalyzerFetchThrows ==
  /\ analyzer.pc = "pending"
  /\ ~analyzer.aborted
  /\ analyzer' = [analyzer EXCEPT
                    !.timer = clearTimeout(analyzer.timer),
                    !.pc = "thrown",
                    !.outcome = ThrowOutcome]
  /\ UNCHANGED <<env, toolVars, reqVars, gateIn, parked>>

\* the JSON documents the web-analyzer route answers with
AnalyzerDocument(body) ==
  CASE body = "analysis:static" ->
         [scraping_complexity_score |-> Num(1), avg_response_time_ms |-> Num(300)]
    [] body = "analysis:cloudflare" ->
         [scraping_complexity_score |-> Num(4),
          requires_javascript |-> Bool(TRUE),
          rendering_type |-> Str("csr"),
          anti_bot_measures |-> <<[provider |-> Str("Cloudflare"), type |-> Str("challenge")]>>,
          requires_residential_ip |-> Bool(TRUE),
          css_selector_stability |-> Str("dynamic"),
          avg_response_time_ms |-> Num(6200)]
    [] body = "analysis:rate-limited" ->
         [scraping_complexity_score |-> Num(9),
          rate_limiting_detected |-> Bool(TRUE),
          rate_limit_requests_per_minute |-> Num(30),
          recommended_proxy_type |-> Str("datacenter"),
          css_selector_stability |-> Str("obfuscated"),
          avg_response_time_ms |-> Num(900)]
    [] OTHER -> EmptyObj

AnalyzerBodies == {"analysis:static", "analysis:cloudflare", "analysis:rate-limited"}

getDifficultyLevel(score) ==
  CASE score = 1 -> "Very Easy"
    [] score = 2 -> "Easy"
    [] score = 3 -> "Medium"
    [] score = 4 -> "Hard"
    [] OTHER -> "Very Hard"

\* Math.min(5, Math.max(1, analyzerResponse.scraping_complexity_score || 1))
scoreOf(doc) ==
  LET given == IF IsTruthy(Get(doc, "scraping_complexity_score"))
               THEN doc.scraping_complexity_score.n ELSE 1
      atLeastOne == IF given < 1 THEN 1 ELSE given
  IN IF atLeastOne > 5 THEN 5 ELSE atLeastOne

\* x || fallback on strings
TextOr(v, fallback) == IF IsTruthy(v) THEN ToJsString(v) ELSE fallback

measuresOf(doc) ==
  IF "anti_bot_measures" \in DOMAIN doc THEN doc.anti_bot_measures ELSE <<>>

Factor(factor, impact, details) == [factor |-> factor, impact |-> impact, details |-> details]

measureFactors(measures) ==
  [i \in DOMAIN measures |->
     Factor("Anti-Bot: " \o TextOr(Get(measures[i], "provider"),
                                   ToJsString(Get(measures[i], "type"))),
            "high",
            TextOr(Get(measures[i], "provider"), "Unknown") \o " "
              \o ToJsString(Get(measures[i], "type")) \o " protection detected")]

factorsOf(doc) ==
  LET f1 == PushIf(IsTruthy(Get(doc, "requires_javascript")), <<>>,
                   Factor("JavaScript Rendering Required", "medium",
                          "Rendering type: " \o TextOr(Get(doc, "rendering_type"), "unknown")
                            \o ". Page requires JavaScript rendering to load content."))
      f2 == f1 \o measureFactors(measuresOf(doc))
      f3 == PushIf(IsTruthy(Get(doc, "rate_limiting_detected")), f2,
                   Factor("Rate Limiting Detected", "medium",
                          "Rate limit: " \o ToJsString(Get(doc, "rate_limit_requests_per_minute"))
                            \o " req/min. Strategy: "
                            \o TextOr(Get(doc, "rate_limit_strategy"), "unknown")))
      f4 == PushIf(IsTruthy(Get(doc, "requires_residential_ip")), f3,
                   Factor("Residential IP Required", "high",
                          TextOr(Get(doc, "residential_ip_reason"),
                                 "Residential IP proxies are recommended for this site")))
      f5 == PushIf(/\ IsTruthy(Get(doc, "css_selector_stability"))
                   /\ Get(doc, "css_selector_stability") # Str("stable"), f4,
                   Factor("Unstable CSS Selectors",
                          IF Get(doc, "css_selector_stability") = Str("dynamic")
                          THEN "high" ELSE "medium",
                          "CSS selectors are " \o ToJsString(Get(doc, "css_selector_stability"))
                            \o ", which may require adaptive scraping strategies"))
  IN PushIf(/\ Get(doc, "avg_response_time_ms") # Undefined
            /\ JsLess(Num(5000), Get(doc, "avg_response_time_ms")), f5,
            Factor("Slow Response", "low",
                   "Average response time is "
                     \o ToJsString(Get(doc, "avg_response_time_ms")) \o "ms"))

\* the bypass recommendation for the provider of the first measure
\* (provider.toLowerCase().includes(...))
providerRecommendation(provider) ==
  CASE provider = Str("Cloudflare") ->
         "Use bypass_level: 'cloudflare_level_2' to bypass Cloudflare protection"
    [] provider = Str("DataDome") ->
         "Use bypass_level: 'datadome' to bypass DataDome protection"
    [] provider = Str("PerimeterX") ->
         "Use bypass_level: 'perimeterx' to bypass PerimeterX protection"
    [] provider \in {Str("Incapsula"), Str("Imperva")} ->
         "Use bypass_level: 'incapsula' to bypass Incapsula/Imperva protection"
    [] OTHER -> "Use bypass_level: 'generic_level_2' or higher to bypass anti-bot protection"

recommendationsOf(doc) ==
  LET r1 == PushIf(IsTruthy(Get(doc, "requires_javascript")), <<>>,
                   "Use render_js: true to render JavaScript content")
      r2 == PushIf(IsTruthy(Get(doc, "requires_residential_ip")), r1,
                   "Use residential: true for residential IP proxies")
      r3 == IF Len(measuresOf(doc)) > 0
            THEN Append(r2, providerRecommendation(Get(measuresOf(doc)[1], "provider")))
            ELSE r2
      r4 == PushIf(IsTruthy(Get(doc, "rate_limiting_detected")), r3,
                   "Implement rate limiting: max "
                     \o ToJsString(Get(doc, "rate_limit_requests_per_minute"))
                     \o " requests/min")
      r5 == PushIf(IsTruthy(Get(doc, "recommended_proxy_type")), r4,
                   "Recommended proxy type: " \o ToJsString(Get(doc, "recommended_proxy_type")))
  IN PushIf(scoreOf(doc) <= 2, r5,
            "Basic request should work fine - no special options needed.")

\* what the code after 'await fetchWithTimeout' throws, "" when it throws
\* nothing: the error of fetchWithTimeout itself, the !response.ok error with
\* the text of the body ('' when the body cannot be read), or the error of
\* response.json()
thrownAfterFetch(failedPrefix, outcome) ==
  IF outcome.kind = "throw" THEN outcome.message
  ELSE IF outcome.status \notin OkStatuses
  THEN failedPrefix \o " failed with status " \o ToString(outcome.status) \o ": "
         \o (IF TextThrows(outcome.body) THEN "" ELSE outcome.body)
  ELSE IF TextThrows(outcome.body) THEN "terminated"
  ELSE IF JsonThrows(outcome.body) THEN "Unexpected token < in JSON"
  ELSE ""

\* what analyze_scraping_difficulty returns once callWebAnalyzer has returned
\* or thrown
difficultyEnvelope(a, outcome) ==
  IF thrownAfterFetch("Web analyzer request", outcome) # ""
  THEN [success |-> FALSE,
        url |-> Get(a, "url").s,
        error |-> "Failed to analyze scraping difficulty: "
                    \o thrownAfterFetch("Web analyzer request", outcome),
        recommendations |-> <<"Ensure the Go parser service is running and accessible",
                              "Verify your API key is valid",
                              "Try again with a different URL">>]
  ELSE LET doc == AnalyzerDocument(outcome.body)
       IN [success |-> TRUE,
           difficulty_score |-> scoreOf(doc),
           difficulty_level |-> getDifficultyLevel(scoreOf(doc)),
           factors |-> factorsOf(doc),
           recommendations |-> recommendationsOf(doc)]

\* the JSON documents the css-selector-stability route answers with
SelectorDocument(body) ==
  CASE body = "selectors:stable" ->
         [css_selector_stability |-> Str("stable"),
          is_dynamic |-> Bool(FALSE), is_obfuscated |-> Bool(FALSE),
          analysis_method |-> Str("multi_request"),
          successful_requests |-> Num(3), total_requests |-> Num(3),
          selector_comparison |->
            [stability_score |-> Fraction(1, 1), random_ratio |-> Zero,
             average_entropy |-> Fraction(3, 1), common_selectors |-> Num(12),
             changing_selectors |-> Num(0), total_unique |-> Num(12)]]
    [] body = "selectors:obfuscated" ->
         [css_selector_stability |-> Str("obfuscated"),
          is_dynamic |-> Bool(FALSE), is_obfuscated |-> Bool(TRUE),
          analysis_method |-> Str("multi_request"),
          successful_requests |-> Num(3), total_requests |-> Num(3),
          selector_comparison |->
            [stability_score |-> Str("high"), random_ratio |-> Fraction(7, 8),
             average_entropy |-> Fraction(21, 5)]]
    [] body = "selectors:failed" ->
         [css_selector_stability |-> Str("error"),
          successful_requests |-> Num(0), total_requests |-> Num(3),
          errors |-> <<"request 1: timeout">>]
    [] OTHER -> EmptyObj

SelectorBodies == {"selectors:stable", "selectors:obfuscated", "selectors:failed"}

\* typeof v === 'number' ? v : null
numberOrNull(v) == IF "kind" \in DOMAIN v THEN v ELSE Null

\* v ?? null
orNull(v) == IF v = Undefined THEN Null ELSE v

\* a key of the object handed to JSON.stringify, which drops an undefined value
Key(key, v) == IF v = Undefined THEN EmptyObj ELSE [k \in {key} |-> v]

\* what check_css_selectors returns once fetchWithTimeout has returned or thrown
selectorsEnvelope(a, outcome) ==
  IF thrownAfterFetch("CSS selector stability request", outcome) # ""
  THEN [success |-> FALSE,
        url |-> Get(a, "url").s,
        error |-> "Failed to check CSS selector stability: "
                    \o thrownAfterFetch("CSS selector stability request", outcome),
        recommendations |-> <<"Verify your API key is valid",
                              "Try again with a different URL">>]
  ELSE LET data == SelectorDocument(outcome.body)
           comparison == IF "selector_comparison" \in DOMAIN data
                         THEN data.selector_comparison ELSE EmptyObj
           stabilityScore == numberOrNull(Get(comparison, "stability_score"))
           randomRatio == numberOrNull(Get(comparison, "random_ratio"))
           avgEntropy == numberOrNull(Get(comparison, "average_entropy"))
           assessment == buildSelectorAssessment(data, stabilityScore, randomRatio, avgEntropy)
       IN [success |-> TRUE,
           url |-> Get(a, "url").s,
           analysis |->
             [metrics |->
                [stability_score |-> stabilityScore,
                 random_ratio |-> randomRatio,
                 average_entropy |-> avgEntropy,
                 common_selectors |-> orNull(Get(comparison, "common_selectors")),
                 changing_selectors |-> orNull(Get(comparison, "changing_selectors")),
                 total_unique_selectors |-> orNull(Get(comparison, "total_unique")),
                 structured_dynamic |-> orNull(Get(comparison, "structured_dynamic"))]]
               @@ Key("method", Get(data, "analysis_method"))
               @@ Key("successful_requests", Get(data, "successful_requests"))
               @@ Key("total_requests", Get(data, "total_requests"))
               @@ (IF "errors" \in DOMAIN data /\ Len(data.errors) > 0
                   THEN [errors |-> data.errors] ELSE EmptyObj),
           assessment |-> assessment.summary,
           selector_strategy |-> assessment.strategy,
           recommendations |-> assessment.recommendations]
            @@ Key("classification", Get(data, "css_selector_stability"))
            @@ Key("is_dynamic", Get(data, "is_dynamic"))
            @@ Key("is_obfuscated", Get(data, "is_obfuscated"))

AnalysisTools == {"analyze_scraping_difficulty", "check_css_selectors"}

\* the label each tool's request hands to fetchWithTimeout
analysisLabel(t) ==
  IF t = "analyze_scraping_difficulty" THEN "Web analyzer request"
  ELSE "CSS selector stability request"

\* execute of an analysis tool up to its await: getApiKey outside the try
\* block, then fetchWithTimeout
ExecuteAnalysis(t, a, session) ==
  /\ tpc = "idle"
  /\ analyzer.pc = "idle"
  /\ tool' = t
  /\ args' = a
  /\ IF getApiKey(session) = ""
     THEN /\ tpc' = "thrown"
          /\ envelope' = [thrown |-> "API key is required. Set SCRAPEOPS_API_KEY environment variable."]
          /\ UNCHANGED analyzer
     ELSE /\ tpc' = "awaiting_analyzer"
          /\ analyzer' = startFetchWithTimeout(analysisLabel(t))
          /\ UNCHANGED envelope
  /\ UNCHANGED <<env, requestParams, usedOptions, validation, noJsResult, reqVars, gateIn, parked>>

\* execute of an analysis tool after its await: the rest of the try block, or
\* the catch block
ResumeAnalysis ==
  /\ tpc = "awaiting_analyzer"
  /\ analyzer.pc \in {"returned", "thrown"}
  /\ envelope' = IF tool = "analyze_scraping_difficulty"
                 THEN difficultyEnvelope(args, analyzer.outcome)
                 ELSE selectorsEnvelope(args, analyzer.outcome)
  /\ tpc' = "returned"
  /\ UNCHANGED <<env, tool, args, requestParams, usedOptions, validation, noJsResult, reqVars, gateIn, analyzer, parked>>

AnalyzerStatuses == {200, 403, 500}

NextAnalyzer ==
  \/ \E t \in AnalysisTools, session \in Sessions :
       ExecuteAnalysis(t, [url |-> Str(Url)], session)
  \/ TimerExpires
  \/ FetchAborted
  \/ \E status \in AnalyzerStatuses,
        body \in AnalyzerBodies \cup SelectorBodies \cup {"html", "aborted"} :
       AnalyzerResponds(status, body)
  \/ AnalyzerFetchThrows
  \/ ResumeAnalysis

SpecAnalyzer == InitTool /\ [][NextAnalyzer]_vars

----------------------------------------------------------------------------
(* C21: the timer of a request to the parser service                       *)

TimeoutMessage == analyzer.label \o " timed out after 120000ms"

FailurePrefix ==
  IF tool = "analyze_scraping_difficulty" THEN "Failed to analyze scraping difficulty: "
  ELSE "Failed to check CSS selector stability: "

\* C21: a request to the parser service runs with its timer armed; when the
\* request completes, by a response or by an error, the timer is disarmed
\* before the caller goes on, and a response is never returned for an aborted
\* request. When the timer expires the request is aborted and the error is
\* '<label> timed out after <N>ms' with N = 120000; no other failure carries
\* that message. The tool then returns its failure envelope: success false and
\* the message behind the tool's prefix.
C21_TimerArmedThenDisarmed ==
  /\ analyzer.pc = "pending" => analyzer.timer \in {"armed", "fired"}
  /\ analyzer.pc \in {"returned", "thrown"} => analyzer.timer \in {"cleared", "fired"}
  /\ analyzer.pc = "returned" => ~analyzer.aborted /\ analyzer.timer = "cleared"
  /\ analyzer.aborted <=> analyzer.timer = "fired"
  /\ analyzer.pc = "thrown" =>
       (analyzer.timer = "fired" <=> analyzer.outcome.message = TimeoutMessage)
  /\ (tpc = "returned" /\ tool \in AnalysisTools /\ analyzer.timer = "fired") =>
       /\ envelope.success = FALSE
       /\ envelope.error = FailurePrefix \o TimeoutMessage
  /\ (tpc = "returned" /\ tool \in AnalysisTools /\ analyzer.pc = "thrown") =>
       envelope.success = FALSE

\* the timer expired and the tool returned the timeout as a failure envelope
C21_Witness ==
  /\ tpc = "returned"
  /\ tool = "check_css_selectors"
  /\ analyzer.timer = "fired"
  /\ envelope.success = FALSE
  /\ envelope.error =
       "Failed to check CSS selector stability: CSS selector stability request timed out after 120000ms"

\* a response arrived in time: the timer is disarmed and the tool succeeds
C21_WitnessDisarmed ==
  /\ tpc = "returned"
  /\ tool = "analyze_scraping_difficulty"
  /\ analyzer.timer = "cleared"
  /\ analyzer.pc = "returned"
  /\ envelope.success = TRUE
  /\ envelope.difficulty_level = "Hard"

----------------------------------------------------------------------------
(* Two tool invocations in progress at once. Node runs one of them at a    *)
(* time and changes to the other only where the running one awaits: the    *)
(* variables hold the locals of the running invocation, parked those of    *)
(* the suspended one. env (process.env, read into RETRY_CONFIG) and the    *)
(* signature tables are the module-level values both of them read.         *)

\* the locals of the running invocation
Locals ==
  [tool |-> tool, args |-> args, requestParams |-> requestParams,
   usedOptions |-> usedOptions, validation |-> validation, tpc |-> tpc,
   envelope |-> envelope, noJsResult |-> noJsResult, apiKey |-> apiKey,
   params |-> params, pc |-> pc, attempt |-> attempt, delay |-> delay,
   lastError |-> lastError, result |-> result, fetches |-> fetches, sleeps |-> sleeps,
   outcomes |-> outcomes]

\* the locals of an invocation that has not been called yet
FreshLocals ==
  [tool |-> "none", args |-> NoCall, requestParams |-> EmptyObj,
   usedOptions |-> EmptyObj, validation |-> NoCall, tpc |-> "idle",
   envelope |-> NoCall, noJsResult |-> NoResult, apiKey |-> "", params |-> EmptyObj,
   pc |-> "idle", attempt |-> 0, delay |-> Num(0), lastError |-> NoError,
   result |-> NoResult, fetches |-> <<>>, sleeps |-> <<>>, outcomes |-> <<>>]

\* the running invocation is at an await (fetch, response.json / text, sleep)
\* or is not on the stack at all
AtAwait ==
  \/ pc \in {"fetch", "sleep_500", "sleep_network"}
  \/ tpc \in {"idle", "returned", "thrown"}

InFlight(l) == l.tpc = "awaiting"

\* the change of invocation with attempt kept in one variable shared by both
Switch_sharedAttempt ==
  /\ parked # NoCall
  /\ AtAwait
  /\ parked.locals.tpc \notin {"returned", "thrown"}
  /\ parked' = [id |-> 3 - parked.id, locals |-> Locals,
                overlapped |-> parked.overlapped \/ (InFlight(Locals) /\ InFlight(parked.locals))]
  /\ tool' = parked.locals.tool
  /\ args' = parked.locals.args
  /\ requestParams' = parked.locals.requestParams
  /\ usedOptions' = parked.locals.usedOptions
  /\ validation' = parked.locals.validation
  /\ tpc' = parked.locals.tpc
  /\ envelope' = parked.locals.envelope
  /\ noJsResult' = parked.locals.noJsResult
  /\ apiKey' = parked.locals.apiKey
  /\ params' = parked.locals.params
  /\ pc' = parked.locals.pc
  /\ UNCHANGED attempt
  /\ delay' = parked.locals.delay
  /\ lastError' = parked.locals.lastError
  /\ result' = parked.locals.result
  /\ fetches' = parked.locals.fetches
  /\ sleeps' = parked.locals.sleeps
  /\ outcomes' = parked.locals.outcomes
  /\ UNCHANGED <<env, gateIn, analyzer>>

\* the event loop goes on with the other invocation, which has not returned
Switch ==
  /\ parked # NoCall
  /\ AtAwait
  /\ parked.locals.tpc \notin {"returned", "thrown"}
  /\ parked' = [id |-> 3 - parked.id, locals |-> Locals,
                overlapped |-> parked.overlapped \/ (InFlight(Locals) /\ InFlight(parked.locals))]
  /\ tool' = parked.locals.tool
  /\ args' = parked.locals.args
  /\ requestParams' = parked.locals.requestParams
  /\ usedOptions' = parked.locals.usedOptions
  /\ validation' = parked.locals.validation
  /\ tpc' = parked.locals.tpc
  /\ envelope' = parked.locals.envelope
  /\ noJsResult' = parked.locals.noJsResult
  /\ apiKey' = parked.locals.apiKey
  /\ params' = parked.locals.params
  /\ pc' = parked.locals.pc
  /\ attempt' = parked.locals.attempt
  /\ delay' = parked.locals.delay
  /\ lastError' = parked.locals.lastError
  /\ result' = parked.locals.result
  /\ fetches' = parked.locals.fetches
  /\ sleeps' = parked.locals.sleeps
  /\ outcomes' = parked.locals.outcomes
  /\ UNCHANGED <<env, gateIn, analyzer>>

ConcurrentEnvironments == {EmptyObj, [SCRAPEOPS_RETRY_MAX_ATTEMPTS |-> <<"2">>]}

InitConcurrent ==
  /\ env \in ConcurrentEnvironments
  /\ tool = "none"
  /\ args = NoCall
  /\ requestParams = EmptyObj
  /\ usedOptions = EmptyObj
  /\ validation = NoCall
  /\ tpc = "idle"
  /\ envelope = NoCall
  /\ noJsResult = NoResult
  /\ apiKey = ""
  /\ params = EmptyObj
  /\ pc = "idle"
  /\ attempt = 0
  /\ delay = Num(0)
  /\ lastError = NoError
  /\ result = NoResult
  /\ fetches = <<>>
  /\ sleeps = <<>>
  /\ outcomes = <<>>
  /\ gateIn = NoCall
  /\ analyzer = NoAnalyzer
  /\ parked = [id |-> 2, locals |-> FreshLocals, overlapped |-> FALSE]

ConcurrentArgs == {[url |-> Str(Url), residential |-> Bool(TRUE)]}

ChallengePage == PageOf({"__cf_chl_"})

KeyedSession == [scrapeOpsApiKey |-> Str("session-key")]

NextConcurrent ==
  \/ \E a \in ConcurrentArgs : Execute("maps_web", a, KeyedSession)
  \/ ExecuteDetectAntiBots([url |-> Str(Url)], KeyedSession)
  \/ IssueFetch
  \/ ExitLoop
  \/ FetchThrows
  \/ ResponseNotOkWith(500, ChallengePage)
  \/ ResponseOk(200, FALSE, ChallengePage)
  \/ Backoff500Done
  \/ BackoffNetworkDone
  \/ Resume
  \/ ResumeDetectAntiBots
  \/ Switch

SpecConcurrent == InitConcurrent /\ [][NextConcurrent]_vars

----------------------------------------------------------------------------
(* C23: concurrent invocations                                             *)

\* the locals of invocation id, running or suspended
LocalsOf(id) == IF parked.id = id THEN parked.locals ELSE Locals

RECURSIVE makeRequestAlone(_, _, _, _)

\* what makeRequest returns when nothing else runs and its transport calls
\* are answered by outs, in order (NoResult while it waits for an answer)
makeRequestAlone(p, outs, a, err) ==
  IF ~loopCondition(a) THEN networkErrorResult(err, a)
  ELSE IF outs = <<>> THEN NoResult
  ELSE LET o == Head(outs)
           thrown == IF o.kind = "throw" THEN ErrorOf(o.message)
                     ELSE IF o.status \notin OkStatuses THEN NoError
                     ELSE IF o.contentTypeJson \/ IsTruthy(Get(p, "json_response"))
                     THEN (IF JsonThrows(o.body) THEN ErrorOf("Unexpected token < in JSON")
                           ELSE NoError)
                     ELSE IF TextThrows(o.body) THEN ErrorOf("terminated")
                     ELSE NoError
       IN IF thrown # NoError
          THEN IF shouldRetryNetwork(a)
               THEN makeRequestAlone(p, Tail(outs), a + 1, thrown)
               ELSE networkErrorResult(thrown, a)
          ELSE IF o.status \notin OkStatuses
          THEN IF isAuthFailed(getErrorType(o.status)) THEN failureResult(o.status, a)
               ELSE IF shouldRetryStatus(o.status, a)
               THEN makeRequestAlone(p, Tail(outs), a + 1, err)
               ELSE failureResult(o.status, a)
          ELSE IF o.contentTypeJson \/ IsTruthy(Get(p, "json_response"))
          THEN successResult(ParsedJson(o.body), o.status, a)
          ELSE successResult(TextOf(o.body), o.status, a)

\* what the tool returns for its arguments and its own transport answers when
\* it is the only invocation (NoCall when these answers do not let it return)
EnvelopeAlone(t, a, outs) ==
  IF t = "detect_anti_bots"
  THEN LET r == makeRequestAlone(removeEmptyValues([url |-> Get(a, "url")]), outs, 0, NoError)
       IN IF r = NoResult THEN NoCall ELSE detectAntiBotsEnvelope(a, r)
  ELSE LET built == Build(t, a)
           v == validateParams(ValidationInput(t, a, built.usedOptions))
           r == makeRequestAlone(removeEmptyValues(built.requestParams), outs, 0, NoError)
       IN IF ~v.valid THEN validationEnvelope(t, a, v)
          ELSE IF r = NoResult THEN NoCall
          ELSE IF r.success THEN successEnvelope(t, a, v, r)
          ELSE failureEnvelope(a, built.usedOptions, r)

\* C23: with two invocations interleaved at their awaits, the envelope an
\* invocation returns is the one it returns when it runs alone with the same
\* arguments and the same answers to its own transport calls, whatever the
\* other one did in between; whenever the running invocation changes, each of
\* the two finds its locals as it left them; and no step changes the
\* environment the retry configuration is read from (the signature tables
\* are constants of the module).
C23_NoInterference ==
  /\ [][(parked' = parked /\ tpc # "returned" /\ tpc' = "returned") =>
          envelope' = EnvelopeAlone(tool', args', outcomes')]_vars
  /\ [][parked' # parked => (parked'.locals = Locals /\ Locals' = parked.locals)]_vars
  /\ [][env' = env]_vars

\* both invocations were in flight together, both retried, and they returned
\* different envelopes
C23_Witness ==
  /\ parked # NoCall
  /\ parked.overlapped
  /\ LocalsOf(1).tpc = "returned"
  /\ LocalsOf(2).tpc = "returned"
  /\ LocalsOf(1).tool = "maps_web"
  /\ LocalsOf(2).tool = "detect_anti_bots"
  /\ Len(LocalsOf(1).outcomes) = 2
  /\ Len(LocalsOf(2).outcomes) = 2
  /\ LocalsOf(1).result.success
  /\ ~LocalsOf(2).result.success

====
